---------------------------- MODULE Spec2Model ----------------------------
(***************************************************************************)
(* A model of the job-board crawler: the Job Store (scraper_module/models) *)
(* and the crawl driver (scraper_module/scraper.JobScraper).               *)
(***************************************************************************)
EXTENDS Integers, Sequences, FiniteSets, TLC

(***************************************************************************)
(* Bounds of the model.                                                    *)
(***************************************************************************)
\* How many times a process (a JobData connection / a crawl run) is started.
MaxRuns == 2
\* How many add_new_link / save_link calls the store-only processes make.
MaxCalls == 3

(***************************************************************************)
(* Values.                                                                 *)
(***************************************************************************)
\* SQL NULL / Python None, for a text value and for an integer value (a
\* job age, a posting date; both are >= 0 when present).
NULL == "NULL"
NullInt == -1

\* Python's "name not bound yet" for a local variable.
Unbound == "Unbound"

\* LinkStatus (an Enum of two members).
VALID == "VALID"
INVALID == "INVALID"
LinkStatus == {VALID, INVALID}

\* Two of the search terms of main.SEARCH_TERMS, for the calls of the store.
Terms == {"rust", "C#"}

\* A URL is the sequence of the segments that "/" separates.  Two paths end
\* in the same job number.
Urls == {<<"job", "1">>, <<"alt", "1">>, <<"job", "2">>}

\* JobData.extract_job_number_from_url: url.split("/")[-1].
extract_job_number_from_url(url) == url[Len(url)]

JobNumbers == {extract_job_number_from_url(u) : u \in Urls}

\* Non-empty job_html values handed to add_new_link.
Htmls == {"h1", "h2"}

(***************************************************************************)
(* The Job Store: three tables.  job_id and term_id are SERIAL keys; since *)
(* no row is ever deleted, the next key is taken to be the row count + 1.  *)
(***************************************************************************)
EmptyStore == [jobs |-> {}, search_terms |-> {}, job_search_terms |-> {}]

\* A jobs row as INSERT INTO jobs (job_number, job_url[, job_html]) makes it:
\* the posting date and the fields the maintenance passes fill are NULL.
JobRow(s, job_number, url, job_html) ==
    [job_id |-> Cardinality(s.jobs) + 1, job_number |-> job_number,
     job_url |-> url, job_html |-> job_html, job_date |-> NullInt,
     position |-> NULL, advertiser |-> NULL, location |-> NULL,
     work_type |-> NULL, salary |-> NULL]

\* jobs.job_url is UNIQUE and ON CONFLICT names job_number only: an insert
\* of a new job_number under a URL another row holds is an IntegrityError.
JobUrlViolation(s, job_number, url) ==
    /\ \A r \in s.jobs : r.job_number # job_number
    /\ \E r \in s.jobs : r.job_url = url

\* INSERT INTO jobs (job_number, job_url, job_html) ... ON CONFLICT (job_number)
\*   DO UPDATE SET job_html = COALESCE(jobs.job_html, EXCLUDED.job_html)
UpsertJobWithHtml(s, job_number, url, job_html) ==
    IF \E r \in s.jobs : r.job_number = job_number
    THEN [s EXCEPT !.jobs =
            {IF r.job_number = job_number /\ r.job_html = NULL
             THEN [r EXCEPT !.job_html = job_html] ELSE r : r \in s.jobs}]
    ELSE [s EXCEPT !.jobs = @ \cup {JobRow(s, job_number, url, job_html)}]

\* A variant of InsertJobIfNotExists: the INSERT without its ON CONFLICT
\* clause on a table without the UNIQUE constraints, a row on every call.
InsertJobIfNotExists_no_conflict(s, job_number, url) ==
    [s EXCEPT !.jobs = @ \cup {JobRow(s, job_number, url, NULL)}]

\* INSERT INTO jobs (job_number, job_url) ... ON CONFLICT (job_number) DO NOTHING
InsertJobIfNotExists(s, job_number, url) ==
    IF \E r \in s.jobs : r.job_number = job_number
    THEN s
    ELSE [s EXCEPT !.jobs = @ \cup {JobRow(s, job_number, url, NULL)}]

\* A variant of InsertSearchTerm: the INSERT without its ON CONFLICT clause
\* on a table without the UNIQUE constraint, a row on every call.
InsertSearchTerm_no_conflict(s, search_term) ==
    [s EXCEPT !.search_terms = @ \cup
        {[term_id |-> Cardinality(s.search_terms) + 1,
          term_text |-> search_term]}]

\* INSERT INTO search_terms (term_text) ... ON CONFLICT (term_text) DO NOTHING
InsertSearchTerm(s, search_term) ==
    IF \E st \in s.search_terms : st.term_text = search_term
    THEN s
    ELSE [s EXCEPT !.search_terms = @ \cup
            {[term_id |-> Cardinality(s.search_terms) + 1,
              term_text |-> search_term]}]

\* SELECT job_id FROM jobs WHERE job_number = %s   ... [0][0]
JobIdOf(s, job_number) ==
    (CHOOSE r \in s.jobs : r.job_number = job_number).job_id

\* SELECT term_id FROM search_terms WHERE term_text = %s   ... [0][0]
TermIdOf(s, search_term) ==
    (CHOOSE st \in s.search_terms : st.term_text = search_term).term_id

\* A variant of UpsertAssociation: ON CONFLICT (job_id, term_id) DO NOTHING,
\* the first decision kept.
UpsertAssociation_do_nothing(s, job_id, term_id, is_valid) ==
    IF \E a \in s.job_search_terms : a.job_id = job_id /\ a.term_id = term_id
    THEN s
    ELSE [s EXCEPT !.job_search_terms = @ \cup
            {[job_id |-> job_id, term_id |-> term_id, valid |-> is_valid]}]

\* A variant of UpsertAssociation: a plain INSERT on a table without the
\* primary key, the earlier row of the pair kept beside the new one.
UpsertAssociation_insert(s, job_id, term_id, is_valid) ==
    [s EXCEPT !.job_search_terms = @ \cup
        {[job_id |-> job_id, term_id |-> term_id, valid |-> is_valid]}]

\* A variant of UpsertAssociation: DELETE FROM job_search_terms WHERE
\* job_id = %s before the INSERT, the job's other terms removed.
UpsertAssociation_delete_first(s, job_id, term_id, is_valid) ==
    [s EXCEPT !.job_search_terms =
        {a \in @ : a.job_id # job_id} \cup
        {[job_id |-> job_id, term_id |-> term_id, valid |-> is_valid]}]

\* INSERT INTO job_search_terms (job_id, term_id, valid) ...
\*   ON CONFLICT (job_id, term_id) DO UPDATE SET valid = EXCLUDED.valid
UpsertAssociation(s, job_id, term_id, is_valid) ==
    [s EXCEPT !.job_search_terms =
        {a \in @ : ~(a.job_id = job_id /\ a.term_id = term_id)} \cup
        {[job_id |-> job_id, term_id |-> term_id, valid |-> is_valid]}]

\* A variant of add_new_link: a link that is not valid leaves its job and
\* its term but no job_search_terms row, only valid links are recorded.
add_new_link_valid_only(s, search_term, url, job_number, status, job_html) ==
    LET is_valid == (status = VALID)
        s1 == IF is_valid /\ job_html # NULL
              THEN UpsertJobWithHtml(s, job_number, url, job_html)
              ELSE InsertJobIfNotExists(s, job_number, url)
        s2 == InsertSearchTerm(s1, search_term)
    IN  IF is_valid
        THEN UpsertAssociation(s2, JobIdOf(s2, job_number),
                               TermIdOf(s2, search_term), is_valid)
        ELSE s2

\* JobData.add_new_link, when its first statement raises no IntegrityError
\* (JobUrlViolation); each statement is committed on its own.
add_new_link(s, search_term, url, job_number, status, job_html) ==
    LET is_valid == (status = VALID)
        s1 == IF is_valid /\ job_html # NULL
              THEN UpsertJobWithHtml(s, job_number, url, job_html)
              ELSE InsertJobIfNotExists(s, job_number, url)
        s2 == InsertSearchTerm(s1, search_term)
        job_id == JobIdOf(s2, job_number)
        term_id == TermIdOf(s2, search_term)
    IN  UpsertAssociation(s2, job_id, term_id, is_valid)

\* The store when add_new_link is cut short (the connection is lost, the
\* process dies) after `done` (one or two) of its three writing statements:
\* DBHandler.execute commits each statement on its own.
add_new_link_cut_short(s, search_term, url, job_number, status, job_html, done) ==
    LET is_valid == (status = VALID)
        s1 == IF is_valid /\ job_html # NULL
              THEN UpsertJobWithHtml(s, job_number, url, job_html)
              ELSE InsertJobIfNotExists(s, job_number, url)
        s2 == InsertSearchTerm(s1, search_term)
    IN  IF done = 1 THEN s1 ELSE s2

\* The empty dict.
EmptyMapping == [t \in {} |-> TRUE]

\* The rows of: SELECT st.term_text, jst.valid FROM job_search_terms jst
\*   JOIN search_terms st ON jst.term_id = st.term_id WHERE jst.job_id = %s
ValidityRows(s, job_id) ==
    {<<p[1].term_text, p[2].valid>> :
        p \in {q \in s.search_terms \X s.job_search_terms :
                 q[2].term_id = q[1].term_id /\ q[2].job_id = job_id}}

\* A variant of get_search_terms_and_validities: the query with
\* "AND jst.valid" in its join, the rejected pairs left out.
get_search_terms_and_validities_valid_only(s, job_number) ==
    LET results == {r \in s.jobs : r.job_number = job_number}
    IN  IF results = {}
        THEN EmptyMapping
        ELSE LET rows == {row \in ValidityRows(s, (CHOOSE r \in results :
                                                     TRUE).job_id) : row[2]}
             IN  [t \in {row[1] : row \in rows} |-> TRUE]

\* JobData.get_search_terms_and_validities: dict(term_text -> valid), the
\* empty dict when no jobs row has the job_number.
get_search_terms_and_validities(s, job_number) ==
    LET results == {r \in s.jobs : r.job_number = job_number}
    IN  IF results = {}
        THEN EmptyMapping
        ELSE LET rows == ValidityRows(s, (CHOOSE r \in results : TRUE).job_id)
             IN  [t \in {row[1] : row \in rows} |->
                    CHOOSE v \in BOOLEAN : <<t, v>> \in rows]

\* A variant of get_link_count: COUNT(*) instead of COUNT(DISTINCT job_id).
get_link_count_rows(s, status) ==
    Cardinality({x \in s.job_search_terms : x.valid = (status = VALID)})

\* JobData.get_link_count: SELECT COUNT(DISTINCT job_id) ... WHERE valid = %s
get_link_count(s, status) ==
    Cardinality({a.job_id : a \in {x \in s.job_search_terms :
                                      x.valid = (status = VALID)}})

\* JobData.get_links_difference: the count now less the initial count.
get_links_difference(s, counts, status) ==
    get_link_count(s, status) - counts[status]

\* What the store has decided: the <<job_number, term_text, valid>> of every
\* job_search_terms row.
Associations(s) ==
    {<<q[1].job_number, q[2].term_text, q[3].valid>> :
        q \in {x \in s.jobs \X s.search_terms \X s.job_search_terms :
                 x[3].job_id = x[1].job_id /\ x[3].term_id = x[2].term_id}}

\* The validities stored for the pair (job_number, term): none, or one.
StoredValidity(s, job_number, term) ==
    {a[3] : a \in {x \in Associations(s) : x[1] = job_number /\ x[2] = term}}

\* JobData.add_or_update_link(search_term, url, job_number, job_date, status):
\* the upserts of add_new_link, then the posting date fills a NULL job_date.
add_or_update_link(s, search_term, url, job_number, job_date, status) ==
    LET s1 == add_new_link(s, search_term, url, job_number, status, NULL)
    IN  [s1 EXCEPT !.jobs =
            {IF r.job_number = job_number /\ r.job_date = NullInt
             THEN [r EXCEPT !.job_date = job_date] ELSE r : r \in s1.jobs}]

(***************************************************************************)
(* The Link Classifier: JobScraper.is_valid_link and process_link_url.     *)
(***************************************************************************)
\* A string is the sequence of its characters.
TermChars(t) ==
    CASE t = "rust"   -> <<"r", "u", "s", "t">>
      [] t = "C#"     -> <<"C", "#">>
      [] t = "C++"    -> <<"C", "+", "+">>
      [] t = "java"   -> <<"j", "a", "v", "a">>
      [] t = "pandas" -> <<"p", "a", "n", "d", "a", "s">>
      [] t = ""       -> << >>
      [] t = "a,b"    -> <<"a", ",", "b">>
      [] t = "a\"b"   -> <<"a", "\"", "b">>
      [] t = "a\nb"   -> <<"a", "\n", "b">>
      [] t = "a\rb"   -> <<"a", "\r", "b">>

\* The strings of the model, and the string that a sequence of characters is.
Strings ==
    {"rust", "C#", "C++", "java", "pandas", "", "a,b", "a\"b", "a\nb", "a\rb"}

String(chars) == CHOOSE t \in Strings : TermChars(t) = chars

UpperLetters ==
    <<"A", "B", "C", "D", "E", "F", "G", "H", "I", "J", "K", "L", "M",
      "N", "O", "P", "Q", "R", "S", "T", "U", "V", "W", "X", "Y", "Z">>
LowerLetters ==
    <<"a", "b", "c", "d", "e", "f", "g", "h", "i", "j", "k", "l", "m",
      "n", "o", "p", "q", "r", "s", "t", "u", "v", "w", "x", "y", "z">>
Digits == <<"0", "1", "2", "3", "4", "5", "6", "7", "8", "9">>

\* str.lower() on the characters the model uses.
LowerChar(c) ==
    IF \E i \in 1..26 : UpperLetters[i] = c
    THEN LowerLetters[CHOOSE i \in 1..26 : UpperLetters[i] = c]
    ELSE c

Lower(str) == [i \in 1..Len(str) |-> LowerChar(str[i])]

\* \w of the regular expression: letters, digits and the underscore.
WordChars ==
    {UpperLetters[i] : i \in 1..26} \cup {LowerLetters[i] : i \in 1..26}
        \cup {Digits[i] : i \in 1..10} \cup {"_"}

\* \b at the gap after the first i characters of text: exactly one side of
\* the gap is a word character.
WordBoundary(text, i) ==
    (i >= 1 /\ text[i] \in WordChars) # (i < Len(text) /\ text[i + 1] \in WordChars)

\* bool(re.search(rf"\b{re.escape(term)}\b", text))
SearchWholeWord(term, text) ==
    \E i \in 0..(Len(text) - Len(term)) :
        /\ SubSeq(text, i + 1, i + Len(term)) = term
        /\ WordBoundary(text, i)
        /\ WordBoundary(text, i + Len(term))

\* The day the crawl runs on, as a day number (date.today()).
Today == 10

\* JobData.calculate_job_date: the current date minus job_age days.
calculate_job_date(job_age) == Today - job_age

\* The texts of <span> elements of a detail page.
Posted5dAgo == <<"P", "o", "s", "t", "e", "d", " ", "5", "d", " ", "a", "g", "o">>
Posted3hAgo == <<"P", "o", "s", "t", "e", "d", " ", "3", "h", " ", "a", "g", "o">>

\* Detail pages the site may serve: the visible text, and the texts of the
\* <span> elements in document order.
Soups ==
    { [text |-> <<"R", "u", "s", "t">>, spans |-> <<Posted5dAgo>>],
      [text |-> <<"r", "u", "s", "t", "y">>, spans |-> <<Posted3hAgo>>],
      [text |-> <<"c", "#", "x">>, spans |-> << >>],
      [text |-> <<"c", "#", " ", "r", "u", "s", "t">>, spans |-> <<Posted3hAgo>>] }

\* get_soup's None.
NoSoup == [none |-> TRUE]

\* What one get_request(url) ends with: a response with status 200 and a
\* page, a response with another status (its body a page that names a
\* term), or the last RequestException of NUM_RETRIES failed attempts.
RequestException == [exception |-> "RequestException"]
Responses ==
    [status_code : {200}, soup : Soups] \cup
    {[status_code |-> 404,
      soup |-> [text |-> <<"R", "u", "s", "t">>, spans |-> <<Posted5dAgo>>]]} \cup
    {RequestException}

\* What the fetch of a result page ends with.
ResultPageResponses ==
    {[status_code |-> 200, soup |-> [text |-> << >>, spans |-> << >>]],
     [status_code |-> 404, soup |-> NoSoup], RequestException}

\* A variant of get_soup: the body is parsed whatever the status.
get_soup_any_status(response) == response.soup

\* NetworkHandler.get_soup on a response: the parsed page for status 200,
\* else None.
get_soup(response) ==
    IF response.status_code = 200 THEN response.soup ELSE NoSoup

\* sub in text
Contains(text, sub) ==
    \E i \in 0..(Len(text) - Len(sub)) : SubSeq(text, i + 1, i + Len(sub)) = sub

IsDigit(c) == \E i \in 1..10 : Digits[i] = c

\* int(digits)
RECURSIVE int(_)
int(digits) ==
    IF digits = << >> THEN 0
    ELSE 10 * int(SubSeq(digits, 1, Len(digits) - 1))
            + (CHOOSE i \in 1..10 : Digits[i] = digits[Len(digits)]) - 1

\* str(n) of an integer.
RECURSIVE str(_)
str(n) ==
    IF n < 0 THEN <<"-">> \o str(0 - n)
    ELSE IF n < 10 THEN <<Digits[n + 1]>>
    ELSE str(n \div 10) \o <<Digits[(n % 10) + 1]>>

\* The end of the run of digits that covers place i of text.
RunEnd(text, i) ==
    CHOOSE j \in i..Len(text) :
        /\ \A k \in i..j : IsDigit(text[k])
        /\ j = Len(text) \/ ~IsDigit(text[j + 1])

\* A variant of SearchNumberBefore: re.search(rf"(\d){unit}", text), one
\* digit only.
SearchNumberBefore_one_digit(unit, text) ==
    LET starts == {i \in 1..(Len(text) - 1) :
                     IsDigit(text[i]) /\ text[i + 1] = unit}
    IN  IF starts = {} THEN << >>
        ELSE <<text[CHOOSE x \in starts : \A y \in starts : x <= y]>>

\* re.search(rf"(\d+){unit}", text): the group of the leftmost match,
\* << >> without a match.
SearchNumberBefore(unit, text) ==
    LET starts == {i \in 1..Len(text) :
                     /\ IsDigit(text[i])
                     /\ RunEnd(text, i) < Len(text)
                     /\ text[RunEnd(text, i) + 1] = unit}
    IN  IF starts = {} THEN << >>
        ELSE LET i == CHOOSE x \in starts : \A y \in starts : x <= y
             IN  SubSeq(text, i, RunEnd(text, i))

\* The loop of extract_job_age over the spans (lines 93-106).
RECURSIVE SpanAge(_)
SpanAge(spans) ==
    IF spans = << >> THEN NullInt
    ELSE LET span == Head(spans)
             span_lower == Lower(span)
         IN  IF ~Contains(span_lower, <<"p", "o", "s", "t", "e", "d">>)
             THEN SpanAge(Tail(spans))
             ELSE IF Contains(span_lower, <<"d", " ", "a", "g", "o">>)
             THEN IF SearchNumberBefore("d", span) # << >>
                  THEN int(SearchNumberBefore("d", span))
                  ELSE SpanAge(Tail(spans))
             ELSE IF Contains(span_lower, <<"h", " ", "a", "g", "o">>)
                     /\ SearchNumberBefore("h", span) # << >>
             THEN 0
             ELSE SpanAge(Tail(spans))

\* JobScraper.extract_job_age: the age in days the first fitting "posted"
\* span gives, None (NullInt) without one.
extract_job_age(soup) == SpanAge(soup.spans)

\* JobScraper.is_valid_link: <<valid, job_age>>.
is_valid_link(search_term, soup) ==
    IF soup = NoSoup
    THEN <<FALSE, NullInt>>
    ELSE LET visible_text == Lower(soup.text)
             valid == SearchWholeWord(Lower(TermChars(search_term)), visible_text)
         IN  IF valid THEN <<valid, extract_job_age(soup)>> ELSE <<valid, NullInt>>

\* process_link_url, lines 192-194: the pair is known, nothing is fetched.
SkipKnownLink(s, validity) ==
    [store |-> s, fetched |-> FALSE, symbol |-> IF validity THEN "X" ELSE "x"]

\* A variant of ClassifyNewLink: a fetch that failed for good is taken as a
\* page without content, the link recorded as invalid.
ClassifyNewLink_failure_as_invalid(s, url, search_term, job_number, response) ==
    IF JobUrlViolation(s, job_number, url)
    THEN [store |-> s, fetched |-> TRUE, symbol |-> "raise"]
    ELSE LET soup == IF response = RequestException THEN NoSoup
                     ELSE get_soup(response)
             res == is_valid_link(search_term, soup)
             valid == res[1]
             job_age == res[2]
             job_date == IF job_age # NullInt
                         THEN calculate_job_date(job_age) ELSE NullInt
         IN  [store |-> add_or_update_link(s, search_term, url, job_number,
                            job_date, IF valid THEN VALID ELSE INVALID),
              fetched |-> TRUE,
              symbol |-> IF valid THEN "V" ELSE "I"]

\* process_link_url, lines 197-208: the detail page is requested, the link
\* validated and the outcome recorded; an exception of the fetch or of the
\* store leaves the method ("raise").
ClassifyNewLink(s, url, search_term, job_number, response) ==
    IF response = RequestException \/ JobUrlViolation(s, job_number, url)
    THEN [store |-> s, fetched |-> TRUE, symbol |-> "raise"]
    ELSE LET res == is_valid_link(search_term, get_soup(response))
             valid == res[1]
             job_age == res[2]
             job_date == IF job_age # NullInt
                         THEN calculate_job_date(job_age) ELSE NullInt
         IN  [store |-> add_or_update_link(s, search_term, url, job_number,
                            job_date, IF valid THEN VALID ELSE INVALID),
              fetched |-> TRUE,
              symbol |-> IF valid THEN "V" ELSE "I"]

\* A variant of process_link_url: only a pair stored as valid is skipped, a
\* pair stored as invalid is fetched and validated again.
process_link_url_recheck_invalid(s, url, search_term, response) ==
    LET job_number == extract_job_number_from_url(url)
        search_term_validities == get_search_terms_and_validities(s, job_number)
    IN  IF search_term \in DOMAIN search_term_validities
           /\ search_term_validities[search_term]
        THEN SkipKnownLink(s, TRUE)
        ELSE ClassifyNewLink(s, url, search_term, job_number, response)

\* A variant of process_link_url: the test of the earlier scraper
\* (job_in_links), a job known under any term is skipped.
process_link_url_job_in_links(s, url, search_term, response) ==
    LET job_number == extract_job_number_from_url(url)
        search_term_validities == get_search_terms_and_validities(s, job_number)
    IN  IF DOMAIN search_term_validities # {}
        THEN SkipKnownLink(s, \E t \in DOMAIN search_term_validities :
                                  search_term_validities[t])
        ELSE ClassifyNewLink(s, url, search_term, job_number, response)

\* A variant of process_link_url: without the short-circuit of lines
\* 192-195, every link is fetched and validated, known pair or not.
process_link_url_no_short_circuit(s, url, search_term, response) ==
    ClassifyNewLink(s, url, search_term, extract_job_number_from_url(url),
                    response)

\* JobScraper.process_link_url(url, search_term) on store s, where response
\* is what the detail-page fetch would end with.  The result: the store
\* afterwards, the symbol printed and whether the detail page was requested.
process_link_url(s, url, search_term, response) ==
    LET job_number == extract_job_number_from_url(url)
        search_term_validities == get_search_terms_and_validities(s, job_number)
    IN  IF search_term \in DOMAIN search_term_validities
        THEN SkipKnownLink(s, search_term_validities[search_term])
        ELSE ClassifyNewLink(s, url, search_term, job_number, response)

(***************************************************************************)
(* The site, as the browser shows it.  An href is the sequence of its      *)
(* path segments, then "?" and the query when it has one.                  *)
(***************************************************************************)
\* The lists of search terms a run is started with (terms of
\* main.SEARCH_TERMS; the site lists no job for "pandas").
TermLists == {<<"pandas", "rust", "C#">>, <<"C#", "rust">>, <<"rust">>}

\* The hrefs of the job links of a result page, in document order.
PageHrefs(term, page) ==
    CASE term = "rust" /\ page = 1 ->
            << <<"job", "1", "?", "a">>, <<"alt", "1">>, <<"job", "1", "?", "b">> >>
      [] term = "rust" /\ page = 2 -> << <<"job", "2">> >>
      [] term = "C#" /\ page = 1   -> << <<"job", "1", "?", "c">> >>
      [] OTHER -> << >>

\* NetworkHandler.has_results on the soup of a result page: whether the
\* page lists result items (None lists none).
has_results(soup, term, page) == soup # NoSoup /\ PageHrefs(term, page) # << >>

\* A variant of StripQuery: the href is kept as it is, query included.
StripQuery_keep_query(href) == href

\* href.split("?")[0]
StripQuery(href) ==
    LET qs == {i \in 1..Len(href) : href[i] = "?"}
    IN  IF qs = {} THEN href
        ELSE SubSeq(href, 1, (CHOOSE i \in qs : \A j \in qs : i <= j) - 1)

\* [u for u in hrefs if not (u in seen or seen.add(u))]
RECURSIVE DeDupe(_, _)
DeDupe(urls, seen) ==
    IF urls = << >> THEN << >>
    ELSE IF Head(urls) \in seen THEN DeDupe(Tail(urls), seen)
    ELSE <<Head(urls)>> \o DeDupe(Tail(urls), seen \cup {Head(urls)})

\* A variant of CollectUrls: the URLs de-duplicated from the end of the
\* list, the last occurrence of each kept.
CollectUrls_keep_last(job_links) ==
    LET n == Len(job_links)
        reversed == [i \in 1..n |-> StripQuery(job_links[n + 1 - i])]
        kept == DeDupe(reversed, {})
    IN  [i \in 1..Len(kept) |-> kept[Len(kept) + 1 - i]]

\* JobScraper.process_page up to its loop over the URLs: the hrefs of the
\* links found, stripped of their query and de-duplicated in order.
CollectUrls(job_links) ==
    DeDupe([i \in 1..Len(job_links) |-> StripQuery(job_links[i])], {})

(***************************************************************************)
(* The persisted cursor, scraper_state.csv.                                *)
(***************************************************************************)
NoFile == [exists |-> FALSE, text |-> << >>]

\* csv.writer with the excel dialect, QUOTE_MINIMAL: a field is quoted when
\* it holds the delimiter, the quote character or a character of the line
\* terminator, and its quote characters are doubled.
NeedsQuote(field) ==
    \E i \in 1..Len(field) : field[i] \in {",", "\"", "\r", "\n"}

RECURSIVE DoubleQuotes(_)
DoubleQuotes(field) ==
    IF field = << >> THEN << >>
    ELSE (IF Head(field) = "\"" THEN <<"\"", "\"">> ELSE <<Head(field)>>)
            \o DoubleQuotes(Tail(field))

WriteField(field) ==
    IF NeedsQuote(field)
    THEN <<"\"">> \o DoubleQuotes(field) \o <<"\"">>
    ELSE field

RECURSIVE JoinFields(_)
JoinFields(fields) ==
    IF Len(fields) = 1 THEN WriteField(fields[1])
    ELSE WriteField(fields[1]) \o <<",">> \o JoinFields(Tail(fields))

\* csv.writer.writerow: the fields, then "\r\n".
writerow(fields) == JoinFields(fields) \o <<"\r", "\n">>

\* open(..., "w", newline=""): the file exists and is empty from the open
\* on; what was written reaches it when the with block closes it.
OpenForWriting == [exists |-> TRUE, text |-> << >>]

\* JobScraper.save_state: the file is overwritten with the one row
\* [search_term, page_number], written as it is (newline="").
save_state(search_term, page_number) ==
    [exists |-> TRUE,
     text |-> writerow(<<TermChars(search_term), str(page_number)>>)]

\* JobScraper.clear_state: the file is overwritten with nothing.
clear_state == OpenForWriting

\* load_state's None.
NoState == [none |-> TRUE]

\* open(..., "r") without newline: "\r\n" and "\r" are read as "\n".
RECURSIVE UniversalNewlines(_)
UniversalNewlines(text) ==
    IF text = << >> THEN << >>
    ELSE IF Head(text) = "\r"
    THEN <<"\n">> \o UniversalNewlines(IF Len(text) > 1 /\ text[2] = "\n"
                                       THEN Tail(Tail(text))
                                       ELSE Tail(text))
    ELSE <<Head(text)>> \o UniversalNewlines(Tail(text))

\* csv.reader: the first row of text, as << row >>, or << >> when the text
\* has no row.  state is the parser's state, field the characters of the
\* field being read and row the fields read so far.
RECURSIVE ReadRow(_, _, _, _)
ReadRow(text, state, field, row) ==
    IF text = << >>
    THEN CASE state = "START_RECORD" -> << >>
           [] OTHER -> << Append(row, field) >>
    ELSE LET c == Head(text)
             rest == Tail(text)
         IN  CASE state \in {"START_RECORD", "START_FIELD"} ->
                    IF c = "\n"
                    THEN (IF state = "START_RECORD"
                          THEN << << >> >>
                          ELSE << Append(row, << >>) >>)
                    ELSE IF c = "\""
                    THEN ReadRow(rest, "IN_QUOTED_FIELD", << >>, row)
                    ELSE IF c = ","
                    THEN ReadRow(rest, "START_FIELD", << >>,
                                 Append(row, << >>))
                    ELSE ReadRow(rest, "IN_FIELD", <<c>>, row)
               [] state = "IN_FIELD" ->
                    IF c = "\n"
                    THEN << Append(row, field) >>
                    ELSE IF c = ","
                    THEN ReadRow(rest, "START_FIELD", << >>,
                                 Append(row, field))
                    ELSE ReadRow(rest, "IN_FIELD", Append(field, c), row)
               [] state = "IN_QUOTED_FIELD" ->
                    IF c = "\""
                    THEN ReadRow(rest, "QUOTE_IN_QUOTED_FIELD", field, row)
                    ELSE ReadRow(rest, "IN_QUOTED_FIELD", Append(field, c),
                                 row)
               [] state = "QUOTE_IN_QUOTED_FIELD" ->
                    IF c = "\""
                    THEN ReadRow(rest, "IN_QUOTED_FIELD", Append(field, c),
                                 row)
                    ELSE IF c = ","
                    THEN ReadRow(rest, "START_FIELD", << >>,
                                 Append(row, field))
                    ELSE IF c = "\n"
                    THEN << Append(row, field) >>
                    ELSE ReadRow(rest, "IN_FIELD", Append(field, c), row)

FirstRow(text) == ReadRow(text, "START_RECORD", << >>, << >>)

\* int(row[1]) of a string: white space around it is dropped, a sign may
\* lead, and single underscores may stand between the digits.
RECURSIVE Strip(_)
Strip(chars) ==
    IF chars # << >> /\ Head(chars) \in {" ", "\t", "\n", "\r"}
    THEN Strip(Tail(chars))
    ELSE IF chars # << >> /\ chars[Len(chars)] \in {" ", "\t", "\n", "\r"}
    THEN Strip(SubSeq(chars, 1, Len(chars) - 1))
    ELSE chars

Unsigned(chars) ==
    LET s == Strip(chars)
    IN  IF s # << >> /\ s[1] \in {"+", "-"} THEN Tail(s) ELSE s

IsIntLiteral(chars) ==
    LET body == Unsigned(chars)
    IN  /\ body # << >>
        /\ \A i \in 1..Len(body) :
              \/ IsDigit(body[i])
              \/ /\ body[i] = "_"
                 /\ 1 < i
                 /\ i < Len(body)
                 /\ IsDigit(body[i - 1])
                 /\ IsDigit(body[i + 1])

IntValue(chars) ==
    LET s == Strip(chars)
        magnitude == int(SelectSeq(Unsigned(chars), IsDigit))
    IN  IF s[1] = "-" THEN 0 - magnitude ELSE magnitude

\* JobScraper.load_state: the first row of the file as a dict; None when
\* the file has no row, and None for every exception: FileNotFoundError of
\* the open, IndexError of row[1], ValueError of int.
load_state(file) ==
    IF ~file.exists
    THEN NoState
    ELSE LET rows == FirstRow(UniversalNewlines(file.text))
         IN  IF rows = << >>
             THEN NoState
             ELSE IF Len(rows[1]) < 2 \/ ~IsIntLiteral(rows[1][2])
             THEN NoState
             ELSE [search_term |-> String(rows[1][1]),
                   page_number |-> IntValue(rows[1][2])]

(***************************************************************************)
(* State.                                                                  *)
(***************************************************************************)
VARIABLES
    store,            \* the three tables of the database
    conn,             \* DBHandler.conn: "none", "open", "aborted", "closed"
    initial_counts,   \* JobData.initial_counts
    runs,             \* processes started so far
    calls,            \* store calls made so far by the store-only processes
    last_call,        \* history: the last add_new_link / save_link call
    state_file,       \* scraper_state.csv
    network_handler,  \* whether JobScraper.network_handler is a NetworkHandler
    browser,          \* the Selenium browser: "none", "open", "closed"
    pc,               \* where perform_searches (and then main) stands
    search_terms,     \* perform_searches' argument
    idx,              \* how many terms the for loop has taken
    search_term,      \* the local search_term, Unbound before the loop binds it
    page_number,      \* the local page_number, UnboundInt before line 244
    start_from_term,  \* the local start_from_term, FalseStr for False
    start_from_page,  \* the local start_from_page
    hrefs,            \* process_page's URLs still to classify
    raised,           \* the exception propagating out of perform_searches
    loop_exit,        \* history: how the try block was left
    exit_at,          \* history: the pc the try block was left at
    visited,          \* history: the <<term, page>> loaded by driver.get
    start_cursor,     \* history: what load_state returned to this run
    last_link,        \* history: the last process_link_url call
    exit_status,      \* the exit status of the process, NullInt while it runs
    release_log,      \* history: the closes the finally clause attempted
    last_check,       \* history: the last results check and what it reported
    fetch_pc,         \* where NetworkHandler.get_request stands
    fetch_attempts,   \* how many requests.get calls this get_request made
    last_exception,   \* get_request's local last_exception
    fetch_log,        \* history: the requests.get and time.sleep calls it made
    fetch_result,     \* what get_request returned or raised
    page_pc,          \* where process_page stands
    attempt,          \* process_page's local attempt
    job_links,        \* the elements find_job_links returned last
    stale_count,      \* process_page's local stale_count
    page_exception,   \* the exception that left process_page, "none" if none
    classified,       \* history: the URLs handed to process_link_url
    now,              \* time.time(), in seconds
    last_request_time, \* NetworkHandler.last_request_time
    get_starts,       \* history: when the last two requests.get calls began
    validated,        \* history: the last process_link_url call on its own
    cursor_pc,        \* where save_state stands: "idle", or "open"
    cursor_row,       \* save_state's arguments
    cursor_before,    \* history: the file as it was when save_state began
    cursor_op,        \* history: what gave the file its present content
    loaded            \* history: the last load_state call and its result

vars == <<store, conn, initial_counts, runs, calls, last_call, state_file,
          network_handler, browser, pc, search_terms, idx, search_term,
          page_number, start_from_term, start_from_page, hrefs, raised,
          loop_exit, exit_at, visited, start_cursor, last_link, exit_status,
          release_log, last_check,
          fetch_pc, fetch_attempts, last_exception, fetch_log, fetch_result,
          page_pc, attempt, job_links, stale_count, page_exception,
          classified, now, last_request_time, get_starts, validated,
          cursor_pc, cursor_row, cursor_before, cursor_op, loaded>>

crawlVars == <<state_file, network_handler, browser, pc, search_terms, idx,
               search_term, page_number, start_from_term, start_from_page,
               hrefs, raised, loop_exit, exit_at, visited, start_cursor,
               last_link, exit_status, release_log, last_check>>

fetchVars == <<fetch_pc, fetch_attempts, last_exception, fetch_log,
               fetch_result>>

storeVars == <<store, conn, initial_counts, runs, calls, last_call>>

pageVars == <<page_pc, attempt, job_links, stale_count, page_exception,
              classified>>

clockVars == <<now, last_request_time, get_starts>>

classifyVars == <<validated>>

cursorVars == <<cursor_pc, cursor_row, cursor_before, cursor_op, loaded>>

\* The variables of the specifications of one method on its own.
unitVars == <<fetchVars, pageVars, clockVars, classifyVars, cursorVars>>

\* The variables of perform_searches other than the cursor file.
driverVars == <<network_handler, browser, pc, search_terms, idx, search_term,
                page_number, start_from_term, start_from_page, hrefs, raised,
                loop_exit, exit_at, visited, start_cursor, last_link,
                exit_status, release_log, last_check>>

\* DelaySettings.
SUCCESSIVE_URL_READ_DELAY == 3
REQUEST_EXCEPTION_DELAY == 5
NUM_RETRIES == 4

\* The time a process starts at: time.time() is far beyond any delay.
StartTime == SUCCESSIVE_URL_READ_DELAY

\* get_request's last_exception = None, and no result yet.
NoException == [none |-> TRUE]
NoResult == [none |-> TRUE]

\* page_number before its first assignment.
UnboundInt == 0

\* The local start_from_term = False.
FalseStr == "False"

NoCheck == [search_term |-> Unbound]
NoRow == << >>
NoLoad == [after |-> "none"]
NoCall == [op |-> "none"]
NoLink == [url |-> << >>]

Counts(s) == [st \in LinkStatus |-> get_link_count(s, st)]

Init ==
    /\ store = EmptyStore
    /\ conn = "none"
    /\ initial_counts = Counts(EmptyStore)
    /\ runs = 0
    /\ calls = 0
    /\ last_call = NoCall
    /\ state_file = NoFile
    /\ network_handler = FALSE
    /\ browser = "none"
    /\ pc = "idle"
    /\ search_terms = << >>
    /\ idx = 0
    /\ search_term = Unbound
    /\ page_number = UnboundInt
    /\ start_from_term = FalseStr
    /\ start_from_page = 1
    /\ hrefs = << >>
    /\ raised = "none"
    /\ loop_exit = "none"
    /\ exit_at = "none"
    /\ visited = << >>
    /\ start_cursor = NoState
    /\ last_link = NoLink
    /\ exit_status = NullInt
    /\ release_log = << >>
    /\ last_check = NoCheck
    /\ fetch_pc = "idle"
    /\ fetch_attempts = 0
    /\ last_exception = NoException
    /\ fetch_log = << >>
    /\ fetch_result = NoResult
    /\ page_pc = "idle"
    /\ attempt = 0
    /\ job_links = << >>
    /\ stale_count = 0
    /\ page_exception = "none"
    /\ classified = << >>
    /\ now = StartTime
    /\ last_request_time = 0
    /\ get_starts = <<NullInt, NullInt>>
    /\ validated = NoLink
    /\ cursor_pc = "idle"
    /\ cursor_row = NoRow
    /\ cursor_before = NoFile
    /\ cursor_op = "none"
    /\ loaded = NoLoad

(***************************************************************************)
(* The store on its own: a process that opens a JobData and calls it.      *)
(***************************************************************************)
\* JobData.__init__: connect, create the tables, take the initial counts.
Connect ==
    /\ conn # "open"
    /\ runs < MaxRuns
    /\ runs' = runs + 1
    /\ conn' = "open"
    /\ initial_counts' = Counts(store)
    /\ last_call' = NoCall
    /\ UNCHANGED <<store, calls, crawlVars, unitVars>>

\* A call of JobData.add_new_link.
AddNewLink(search_term_, url, job_number, status, job_html) ==
    /\ conn = "open"
    /\ calls < MaxCalls
    /\ calls' = calls + 1
    /\ IF JobUrlViolation(store, job_number, url)
       THEN /\ conn' = "aborted"
            /\ UNCHANGED store
       ELSE /\ store' = add_new_link(store, search_term_, url, job_number,
                                     status, job_html)
            /\ UNCHANGED conn
    /\ last_call' = [op |-> "add_new_link", search_term |-> search_term_,
                     url |-> url, job_number |-> job_number, status |-> status,
                     job_html |-> job_html,
                     raised |-> JobUrlViolation(store, job_number, url)]
    /\ UNCHANGED <<initial_counts, runs, crawlVars, unitVars>>

\* A call of JobData.add_new_link that a lost connection ends with an
\* exception after `done` of its writing statements.
AddNewLinkCutShort(search_term_, url, job_number, status, job_html, done) ==
    /\ conn = "open"
    /\ calls < MaxCalls
    /\ ~JobUrlViolation(store, job_number, url)
    /\ calls' = calls + 1
    /\ store' = add_new_link_cut_short(store, search_term_, url, job_number,
                                       status, job_html, done)
    /\ conn' = "aborted"
    /\ last_call' = [op |-> "add_new_link", search_term |-> search_term_,
                     job_number |-> job_number, raised |-> TRUE]
    /\ UNCHANGED <<initial_counts, runs, crawlVars, unitVars>>

\* JobData.save_link: add_new_link with the job number of the URL.
SaveLink(search_term_, url, link_status) ==
    AddNewLink(search_term_, url, extract_job_number_from_url(url),
               link_status, NULL)

StoreNext ==
    \/ Connect
    \/ \E t \in Terms, u \in Urls, j \in JobNumbers, st \in LinkStatus,
          h \in Htmls \cup {NULL} : AddNewLink(t, u, j, st, h)
    \/ \E t \in Terms, u \in Urls, st \in LinkStatus : SaveLink(t, u, st)

StoreSpec == Init /\ [][StoreNext]_vars

\* A call of JobData.save_link that a lost connection cuts short.
SaveLinkCutShort(search_term_, url, link_status, done) ==
    AddNewLinkCutShort(search_term_, url, extract_job_number_from_url(url),
                       link_status, NULL, done)

\* The store as save_link drives it, over connections that can be lost in
\* the middle of a call.
SaveLinkNext ==
    \/ Connect
    \/ \E t \in Terms, u \in Urls, st \in LinkStatus : SaveLink(t, u, st)
    \/ \E t \in Terms, u \in Urls, st \in LinkStatus, done \in 1..2 :
          SaveLinkCutShort(t, u, st, done)

SaveLinkSpec == Init /\ [][SaveLinkNext]_vars

(***************************************************************************)
(* The maintenance passes: data_migration/update_main_fields.py and         *)
(* data_migration/update_salaries.py, one job of their loops at a time.    *)
(***************************************************************************)
\* What the extract_* functions find on a job's page: a text, an empty text
\* or None.
MainFieldPages ==
    { [position |-> "Engineer", advertiser |-> "Acme", location |-> "Perth",
       work_type |-> "Full time"],
      [position |-> NULL, advertiser |-> "", location |-> "Hobart",
       work_type |-> NULL],
      [position |-> NULL, advertiser |-> NULL, location |-> NULL,
       work_type |-> NULL] }

\* What scraper.extract_salary finds on a job's page.
Salaries == {NULL, "", "$100k"}

\* What get_soup gives a pass: the page (status 200) or None.
PassSoups(pages) == pages \cup {NoSoup}

\* Python falsiness of an extracted text.
Falsy(value) == value = NULL \/ value = ""

\* The job numbers of the jobs both passes select: one valid association at
\* least.
ValidJobNumbers(s) ==
    {r.job_number : r \in {x \in s.jobs :
        \E a \in s.job_search_terms : a.job_id = x.job_id /\ a.valid}}

\* A variant of KeepOrFill: the extracted value is assigned as it is.
KeepOrFill_assign(new, old) == new

\* job.position = position if position else job.position
KeepOrFill(new, old) == IF ~Falsy(new) THEN new ELSE old

\* update_main_fields.main, lines 62-76, for the job row r and the soup.
update_main_fields(r, soup) ==
    IF soup = NoSoup
    THEN r
    ELSE [r EXCEPT !.position = KeepOrFill(soup.position, @),
                   !.advertiser = KeepOrFill(soup.advertiser, @),
                   !.location = KeepOrFill(soup.location, @),
                   !.work_type = KeepOrFill(soup.work_type, @)]

\* update_salaries.main, lines 24-38, for the job row r; salary is what
\* extract_salary finds on the soup.
update_salaries(r, soup, salary) ==
    IF ~Falsy(r.salary) THEN r
    ELSE IF soup = NoSoup THEN r
    ELSE IF ~Falsy(salary) THEN [r EXCEPT !.salary = salary]
    ELSE r

\* One iteration of update_main_fields' loop over the jobs.
UpdateMainFields(job_number, soup) ==
    /\ conn = "open"
    /\ job_number \in ValidJobNumbers(store)
    /\ store' = [store EXCEPT !.jobs =
                    {IF r.job_number = job_number
                     THEN update_main_fields(r, soup) ELSE r : r \in @}]
    /\ UNCHANGED <<conn, initial_counts, runs, calls, last_call, crawlVars,
                   unitVars>>

\* One iteration of update_salaries' loop over the jobs.
UpdateSalaries(job_number, soup, salary) ==
    /\ conn = "open"
    /\ job_number \in ValidJobNumbers(store)
    /\ store' = [store EXCEPT !.jobs =
                    {IF r.job_number = job_number
                     THEN update_salaries(r, soup, salary) ELSE r : r \in @}]
    /\ UNCHANGED <<conn, initial_counts, runs, calls, last_call, crawlVars,
                   unitVars>>

\* The store under the recording calls of one search term (the job number
\* that of the URL) and the two passes.
MaintenanceNext ==
    \/ Connect
    \/ \E u \in Urls, st \in LinkStatus, h \in Htmls \cup {NULL} :
          AddNewLink("rust", u, extract_job_number_from_url(u), st, h)
    \/ \E j \in JobNumbers, soup \in PassSoups(MainFieldPages) :
          UpdateMainFields(j, soup)
    \/ \E j \in JobNumbers, soup \in PassSoups({[page |-> "job"]}),
          salary \in Salaries : UpdateSalaries(j, soup, salary)

MaintenanceSpec == Init /\ [][MaintenanceNext]_vars

(***************************************************************************)
(* The crawl: main builds a JobScraper and calls perform_searches.         *)
(***************************************************************************)
\* Python truthiness of start_from_term.
Truthy(term) == term # FalseStr /\ term # ""

\* JobScraper.__init__ and perform_searches up to its try: the store is
\* connected, the browser opened on request, the saved state loaded.
StartRun(terms, load_network_handler) ==
    /\ pc = "idle"
    /\ runs < MaxRuns
    /\ runs' = runs + 1
    /\ conn' = "open"
    /\ initial_counts' = Counts(store)
    /\ network_handler' = load_network_handler
    /\ browser' = IF load_network_handler THEN "open" ELSE "none"
    /\ search_terms' = terms
    /\ LET saved_state == load_state(state_file)
       IN  /\ start_cursor' = saved_state
           /\ start_from_term' = IF saved_state # NoState
                                 THEN saved_state.search_term ELSE FalseStr
           /\ start_from_page' = IF saved_state # NoState
                                 THEN saved_state.page_number ELSE 1
    /\ idx' = 0
    /\ search_term' = Unbound
    /\ page_number' = UnboundInt
    /\ hrefs' = << >>
    /\ raised' = "none"
    /\ loop_exit' = "none"
    /\ exit_at' = "none"
    /\ visited' = << >>
    /\ last_link' = NoLink
    /\ exit_status' = NullInt
    /\ release_log' = << >>
    /\ last_check' = NoCheck
    /\ UNCHANGED unitVars
    /\ pc' = "for"
    /\ UNCHANGED <<store, calls, last_call, state_file>>

\* for search_term in search_terms: the next term, skipped while the saved
\* term has not been reached; after the last term the loop is left.
ForTerm ==
    /\ pc = "for"
    /\ IF idx < Len(search_terms)
       THEN /\ idx' = idx + 1
            /\ search_term' = search_terms[idx + 1]
            /\ pc' = IF Truthy(start_from_term)
                        /\ search_terms[idx + 1] # start_from_term
                     THEN "for" ELSE "search"
       ELSE /\ pc' = "clear"
            /\ UNCHANGED <<idx, search_term>>
    /\ UNCHANGED <<store, conn, initial_counts, runs, calls, last_call,
                   state_file, network_handler, browser, search_terms,
                   page_number, start_from_term, start_from_page, hrefs,
                   raised, loop_exit, exit_at, visited, start_cursor,
                   last_link, exit_status, release_log, last_check, unitVars>>

\* The try block is left, for its handlers and the finally clause.
LeaveLoop(how) ==
    /\ loop_exit' = how
    /\ exit_at' = pc
    /\ pc' = "close_browser"
    /\ UNCHANGED <<conn, initial_counts, runs, calls, last_call,
                   network_handler, browser, search_terms, idx, search_term,
                   page_number, start_from_term, start_from_page, hrefs,
                   visited, start_cursor, exit_status, release_log, last_check, unitVars>>

\* self.clear_state() after the loop; the try block ends normally.
ClearState ==
    /\ pc = "clear"
    /\ state_file' = clear_state
    /\ LeaveLoop("completed")
    /\ UNCHANGED <<store, raised, last_link>>

\* A variant of ExceptException: the handler ends with "raise".
ExceptException_reraise ==
    /\ LeaveLoop("Exception")
    /\ raised' = "Exception"
    /\ UNCHANGED state_file

\* except Exception: the exception is printed with its stack trace.
ExceptException ==
    /\ LeaveLoop("Exception")
    /\ UNCHANGED <<state_file, raised>>

\* A variant of InitiateSearch: page_number = 1, the saved page not used.
InitiateSearch_page_one ==
    /\ pc = "search"
    /\ network_handler
    /\ page_number' = 1
    /\ pc' = "get"
    /\ UNCHANGED <<store, conn, initial_counts, runs, calls, last_call,
                   state_file, network_handler, browser, search_terms, idx,
                   search_term, start_from_term, start_from_page, hrefs,
                   raised, loop_exit, exit_at, visited, start_cursor,
                   last_link, exit_status, release_log, last_check, unitVars>>

\* initiate_search ... page_number = start_from_page (lines 238-244).
InitiateSearch ==
    /\ pc = "search"
    /\ network_handler
    /\ page_number' = start_from_page
    /\ pc' = "get"
    /\ UNCHANGED <<store, conn, initial_counts, runs, calls, last_call,
                   state_file, network_handler, browser, search_terms, idx,
                   search_term, start_from_term, start_from_page, hrefs,
                   raised, loop_exit, exit_at, visited, start_cursor,
                   last_link, exit_status, release_log, last_check, unitVars>>

\* initiate_search raises: network_handler is None (AttributeError), or the
\* search input is not found (NoSuchElementException).
InitiateSearchRaises ==
    /\ pc = "search"
    /\ ExceptException
    /\ UNCHANGED <<store, last_link>>

\* A variant of LoadPage: save_state(search_term, page_number) before the
\* page is loaded, a checkpoint per page.
LoadPage_checkpoint ==
    /\ pc = "get"
    /\ state_file' = save_state(search_term, page_number)
    /\ visited' = Append(visited, <<search_term, page_number>>)
    /\ hrefs' = CollectUrls(PageHrefs(search_term, page_number))
    /\ pc' = "links"
    /\ UNCHANGED <<store, conn, initial_counts, runs, calls, last_call,
                   network_handler, browser, search_terms, idx,
                   search_term, page_number, start_from_term, start_from_page,
                   raised, loop_exit, exit_at, start_cursor, last_link,
                   exit_status, release_log, last_check, unitVars>>

\* driver.get(page_url) and process_page up to its loop over the URLs.
LoadPage ==
    /\ pc = "get"
    /\ visited' = Append(visited, <<search_term, page_number>>)
    /\ hrefs' = CollectUrls(PageHrefs(search_term, page_number))
    /\ pc' = "links"
    /\ UNCHANGED <<store, conn, initial_counts, runs, calls, last_call,
                   state_file, network_handler, browser, search_terms, idx,
                   search_term, page_number, start_from_term, start_from_page,
                   raised, loop_exit, exit_at, start_cursor, last_link,
                   exit_status, release_log, last_check, unitVars>>

\* driver.get or find_job_links raises (a WebDriverException).
LoadPageRaises ==
    /\ pc = "get"
    /\ ExceptException
    /\ UNCHANGED <<store, last_link>>

\* One iteration of process_page's loop: process_link_url(url, search_term).
ProcessLink(response) ==
    /\ pc = "links"
    /\ hrefs # << >>
    /\ LET url == Head(hrefs)
           res == process_link_url(store, url, search_term, response)
       IN  /\ last_link' =
                [url |-> url, search_term |-> search_term,
                 had_association |->
                    StoredValidity(store, extract_job_number_from_url(url),
                                   search_term) # {},
                 fetched |-> res.fetched, symbol |-> res.symbol,
                 status_code |-> IF res.fetched /\ response # RequestException
                                 THEN response.status_code ELSE NullInt]
           /\ store' = res.store
           /\ IF res.symbol = "raise"
              THEN ExceptException
              ELSE /\ hrefs' = Tail(hrefs)
                   /\ UNCHANGED <<conn, initial_counts, runs, calls, last_call,
                                  state_file, network_handler, browser, pc,
                                  search_terms, idx, search_term, page_number,
                                  start_from_term, start_from_page, raised,
                                  loop_exit, exit_at, visited, start_cursor,
                                  exit_status, release_log, last_check, unitVars>>

\* A store call of process_link_url raises (the connection is lost).
ProcessLinkStoreError ==
    /\ pc = "links"
    /\ hrefs # << >>
    /\ ExceptException
    /\ UNCHANGED <<store, last_link>>

\* A variant of CheckResults: a page without result items is an error, the
\* exception handler ends the run.
CheckResults_no_results_raises(response) ==
    /\ pc = "links"
    /\ hrefs = << >>
    /\ IF response = RequestException
       THEN ExceptException
       ELSE IF ~has_results(get_soup(response), search_term, page_number)
       THEN /\ last_check' =
                 [search_term |-> search_term, page_number |-> page_number,
                  has_results |-> FALSE]
            /\ loop_exit' = "Exception"
            /\ exit_at' = pc
            /\ pc' = "close_browser"
            /\ UNCHANGED <<conn, initial_counts, runs, calls, last_call,
                           state_file, network_handler, browser, search_terms,
                           idx, search_term, page_number, start_from_term,
                           start_from_page, hrefs, raised, visited,
                           start_cursor, exit_status, release_log, unitVars>>
       ELSE /\ last_check' =
                 [search_term |-> search_term, page_number |-> page_number,
                  has_results |-> TRUE]
            /\ page_number' = page_number + 1
            /\ pc' = "get"
            /\ UNCHANGED <<conn, initial_counts, runs, calls, last_call,
                           state_file, network_handler, browser, search_terms,
                           idx, search_term, hrefs, raised, loop_exit, exit_at,
                           visited, start_cursor, exit_status, release_log,
                           start_from_term, start_from_page, unitVars>>
    /\ UNCHANGED <<store, last_link>>

\* The last page number the variant below goes to.
LastPageFollowed == 4

\* A variant of CheckResults: without the break of lines 256-257, the next
\* page is loaded whatever has_results says.
CheckResults_never_breaks(response) ==
    /\ pc = "links"
    /\ hrefs = << >>
    /\ page_number < LastPageFollowed
    /\ IF response = RequestException
       THEN ExceptException
       ELSE /\ last_check' =
                 [search_term |-> search_term, page_number |-> page_number,
                  has_results |->
                     has_results(get_soup(response), search_term, page_number)]
            /\ page_number' = page_number + 1
            /\ pc' = "get"
            /\ UNCHANGED <<conn, initial_counts, runs, calls, last_call,
                           state_file, network_handler, browser, search_terms,
                           idx, search_term, hrefs, raised, loop_exit, exit_at,
                           visited, start_cursor, exit_status, release_log,
                           start_from_term, start_from_page, unitVars>>
    /\ UNCHANGED <<store, last_link>>

\* soup = get_soup(page_url); has_results(soup) decides between
\* page_number += 1 and break, after which lines 261-263 run.
CheckResults(response) ==
    /\ pc = "links"
    /\ hrefs = << >>
    /\ IF response = RequestException
       THEN ExceptException
       ELSE /\ last_check' =
                 [search_term |-> search_term, page_number |-> page_number,
                  has_results |->
                     has_results(get_soup(response), search_term, page_number)]
            /\ IF has_results(get_soup(response), search_term, page_number)
               THEN /\ page_number' = page_number + 1
                    /\ pc' = "get"
                    /\ UNCHANGED <<start_from_term, start_from_page>>
               ELSE /\ start_from_page' = 1
                    /\ start_from_term' = IF start_from_term = search_term
                                          THEN FalseStr ELSE start_from_term
                    /\ pc' = "for"
                    /\ UNCHANGED page_number
            /\ UNCHANGED <<conn, initial_counts, runs, calls, last_call,
                           state_file, network_handler, browser, search_terms,
                           idx, search_term, hrefs, raised, loop_exit, exit_at,
                           visited, start_cursor, exit_status, release_log,
                           unitVars>>
    /\ UNCHANGED <<store, last_link>>

\* Whether save_state(search_term, page_number) can read both locals.
LocalsBound == search_term # Unbound /\ page_number # UnboundInt

\* A variant of KeyboardInterrupt: the handler closes the connection itself
\* (job_data.close()) after saving the state.
KeyboardInterrupt_closes_db ==
    /\ pc \in {"for", "search", "get", "links", "clear"}
    /\ IF LocalsBound
       THEN /\ state_file' = save_state(search_term, page_number)
            /\ UNCHANGED raised
       ELSE /\ raised' = "UnboundLocalError"
            /\ UNCHANGED state_file
    /\ conn' = "closed"
    /\ loop_exit' = "KeyboardInterrupt"
    /\ exit_at' = pc
    /\ pc' = "close_browser"
    /\ UNCHANGED <<store, initial_counts, runs, calls, last_call,
                   network_handler, browser, search_terms, idx, search_term,
                   page_number, start_from_term, start_from_page, hrefs,
                   visited, start_cursor, last_link, exit_status, release_log, last_check,
                   unitVars>>

\* except KeyboardInterrupt: save_state(search_term, page_number), which
\* raises UnboundLocalError when a local is not bound yet.
KeyboardInterrupt ==
    /\ pc \in {"for", "search", "get", "links", "clear"}
    /\ IF LocalsBound
       THEN /\ state_file' = save_state(search_term, page_number)
            /\ UNCHANGED raised
       ELSE /\ raised' = "UnboundLocalError"
            /\ UNCHANGED state_file
    /\ LeaveLoop("KeyboardInterrupt")
    /\ UNCHANGED <<store, last_link>>

\* finally, first try: network_handler.close(); when it raises (quit fails,
\* or network_handler is None) the handler calls save_state, and an
\* UnboundLocalError of that call leaves perform_searches at once.
CloseBrowser(quit_ok) ==
    /\ pc = "close_browser"
    /\ release_log' = Append(release_log, "browser")
    /\ UNCHANGED last_check
    /\ UNCHANGED unitVars
    /\ IF network_handler /\ quit_ok
       THEN /\ browser' = "closed"
            /\ pc' = "close_db"
            /\ UNCHANGED <<state_file, raised>>
       ELSE /\ UNCHANGED browser
            /\ IF LocalsBound
               THEN /\ state_file' = save_state(search_term, page_number)
                    /\ pc' = "close_db"
                    /\ UNCHANGED raised
               ELSE /\ raised' = "UnboundLocalError"
                    /\ pc' = "returned"
                    /\ UNCHANGED state_file
    /\ UNCHANGED <<store, conn, initial_counts, runs, calls, last_call,
                   network_handler, search_terms, idx, search_term,
                   page_number, start_from_term, start_from_page, hrefs,
                   loop_exit, exit_at, visited, start_cursor, last_link,
                   exit_status>>

\* finally, second try: job_data.close(); an exception of it is printed.
\* Then perform_searches returns, or the pending exception leaves it.
CloseDatabase(close_ok) ==
    /\ pc = "close_db"
    /\ release_log' = Append(release_log, "database")
    /\ UNCHANGED last_check
    /\ UNCHANGED unitVars
    /\ conn' = IF close_ok THEN "closed" ELSE conn
    /\ pc' = "returned"
    /\ UNCHANGED <<store, initial_counts, runs, calls, last_call, state_file,
                   network_handler, browser, search_terms, idx, search_term,
                   page_number, start_from_term, start_from_page, hrefs,
                   raised, loop_exit, exit_at, visited, start_cursor,
                   last_link, exit_status>>

\* The exit status main ends with once perform_searches is left: 1 when an
\* exception left perform_searches; otherwise main queries the counts, which
\* raises on a connection that is not open.
ExitStatus == IF raised # "none" \/ conn # "open" THEN 1 ELSE 0

\* main after perform_searches, to the end of the process: its memory, its
\* connection and its browser are gone.
Exit ==
    /\ pc = "returned"
    /\ exit_status' = ExitStatus
    /\ release_log' = << >>
    /\ last_check' = NoCheck
    /\ UNCHANGED unitVars
    /\ conn' = "none"
    /\ network_handler' = FALSE
    /\ browser' = "none"
    /\ pc' = "idle"
    /\ search_terms' = << >>
    /\ idx' = 0
    /\ search_term' = Unbound
    /\ page_number' = UnboundInt
    /\ start_from_term' = FalseStr
    /\ start_from_page' = 1
    /\ hrefs' = << >>
    /\ raised' = "none"
    /\ loop_exit' = "none"
    /\ exit_at' = "none"
    /\ visited' = << >>
    /\ start_cursor' = NoState
    /\ last_link' = NoLink
    /\ UNCHANGED <<store, initial_counts, runs, calls, last_call, state_file>>

Next ==
    \/ \E terms \in TermLists, lnh \in BOOLEAN : StartRun(terms, lnh)
    \/ ForTerm
    \/ ClearState
    \/ InitiateSearch
    \/ InitiateSearchRaises
    \/ LoadPage
    \/ LoadPageRaises
    \/ \E response \in Responses : ProcessLink(response)
    \/ ProcessLinkStoreError
    \/ \E response \in ResultPageResponses : CheckResults(response)
    \/ KeyboardInterrupt
    \/ \E quit_ok \in BOOLEAN : CloseBrowser(quit_ok)
    \/ \E close_ok \in BOOLEAN : CloseDatabase(close_ok)
    \/ Exit

Spec == Init /\ [][Next]_vars

\* The steps perform_searches takes by itself: every step of a run but the
\* KeyboardInterrupt, which comes from outside.
ProgramStep ==
    \/ ForTerm
    \/ ClearState
    \/ InitiateSearch
    \/ InitiateSearchRaises
    \/ LoadPage
    \/ LoadPageRaises
    \/ \E response \in Responses : ProcessLink(response)
    \/ ProcessLinkStoreError
    \/ \E response \in ResultPageResponses : CheckResults(response)
    \/ \E quit_ok \in BOOLEAN : CloseBrowser(quit_ok)
    \/ \E close_ok \in BOOLEAN : CloseDatabase(close_ok)

\* A first run, and a run resumed from the cursor the first one left.
LiveNext ==
    \/ \E terms \in TermLists, lnh \in BOOLEAN :
          /\ runs = 0 \/ (runs = 1 /\ load_state(state_file) # NoState)
          /\ StartRun(terms, lnh)
    \/ ProgramStep
    \/ KeyboardInterrupt
    \/ Exit

\* The crawl of a process that keeps running: execution is sequential, so
\* while perform_searches has a next step it takes one.
LiveSpec == Init /\ [][LiveNext]_vars /\ WF_vars(ProgramStep)


(***************************************************************************)
(* The fetch: NetworkHandler.get_soup and get_request, one requests.get at *)
(* a time, on a clock that counts seconds.                                 *)
(***************************************************************************)
\* The clock is not followed beyond this time.
MaxTime == 26

\* The seconds one requests.get, or the work between two fetches, may take.
Durations == {0, 1}

\* What one requests.get ends with: a response, of status 200 or not, or a
\* requests.RequestException (three of its subclasses).
AttemptResponses == {[status_code |-> 200], [status_code |-> 404],
                     [status_code |-> 500]}
AttemptExceptions == {[exception |-> "ConnectionError"],
                      [exception |-> "Timeout"],
                      [exception |-> "TooManyRedirects"]}

\* The entries of fetch_log.
GetEvent(outcome) == [op |-> "get", outcome |-> outcome, seconds |-> 0]
SleepEvent(seconds) == [op |-> "sleep", outcome |-> NoResult, seconds |-> seconds]

\* A variant of handle_successive_url_read_delay: no sleep.
handle_successive_url_read_delay_no_sleep(time, last) == time

\* NetworkHandler.handle_successive_url_read_delay called at time `time`
\* with last_request_time = last: the time it returns at (time.sleep taken
\* at its shortest, the requested seconds).
handle_successive_url_read_delay(time, last) ==
    LET time_since_last_request == time - last
    IN  IF time_since_last_request < SUCCESSIVE_URL_READ_DELAY
        THEN time + (SUCCESSIVE_URL_READ_DELAY - time_since_last_request)
        ELSE time

\* Time passes between two get_soup calls (the crawler reads the store,
\* drives the browser).
Elapse ==
    /\ fetch_pc = "idle"
    /\ now < MaxTime
    /\ now' = now + 1
    /\ UNCHANGED <<fetchVars, last_request_time, get_starts, storeVars,
                   crawlVars, pageVars, classifyVars,
                   cursorVars>>

\* get_soup is called: handle_successive_url_read_delay (line 147), which
\* ends with last_request_time = time.time().
GetSoup ==
    /\ fetch_pc = "idle"
    /\ LET time == handle_successive_url_read_delay(now, last_request_time)
       IN  /\ time <= MaxTime
           /\ now' = time
           /\ last_request_time' = time
    /\ fetch_pc' = "soup"
    /\ UNCHANGED <<fetch_attempts, last_exception, fetch_log, fetch_result,
                   get_starts, storeVars, crawlVars, pageVars, classifyVars,
                   cursorVars>>

\* get_request is called: last_exception = None (line 130).
GetRequest ==
    /\ fetch_pc = "soup"
    /\ fetch_pc' = "request"
    /\ fetch_attempts' = 0
    /\ last_exception' = NoException
    /\ fetch_log' = << >>
    /\ fetch_result' = NoResult
    /\ UNCHANGED <<clockVars, storeVars, crawlVars, pageVars, classifyVars,
                   cursorVars>>

\* A variant of RequestsGet: a response whose status is not 200 is treated
\* as a failed attempt (raise_for_status).
RequestsGet_retry_non_200(outcome, seconds) ==
    /\ fetch_pc = "request"
    /\ fetch_attempts < NUM_RETRIES
    /\ now + seconds <= MaxTime
    /\ fetch_attempts' = fetch_attempts + 1
    /\ fetch_log' = Append(fetch_log, GetEvent(outcome))
    /\ get_starts' = <<get_starts[2], now>>
    /\ now' = now + seconds
    /\ IF outcome = [status_code |-> 200]
       THEN /\ fetch_result' = outcome
            /\ last_request_time' = now'
            /\ fetch_pc' = "returned"
            /\ UNCHANGED last_exception
       ELSE /\ last_exception' = outcome
            /\ fetch_pc' = "sleep"
            /\ UNCHANGED <<fetch_result, last_request_time>>
    /\ UNCHANGED <<storeVars, crawlVars, pageVars, classifyVars,
                   cursorVars>>

\* One pass of the for loop up to its except clause (lines 131-137):
\* requests.get begins now and takes some seconds; it returns, and
\* get_request sets last_request_time and returns its response, or it
\* raises a RequestException, which is kept.
RequestsGet(outcome, seconds) ==
    /\ fetch_pc = "request"
    /\ fetch_attempts < NUM_RETRIES
    /\ now + seconds <= MaxTime
    /\ fetch_attempts' = fetch_attempts + 1
    /\ fetch_log' = Append(fetch_log, GetEvent(outcome))
    /\ get_starts' = <<get_starts[2], now>>
    /\ now' = now + seconds
    /\ IF outcome \in AttemptResponses
       THEN /\ fetch_result' = outcome
            /\ last_request_time' = now'
            /\ fetch_pc' = "returned"
            /\ UNCHANGED last_exception
       ELSE /\ last_exception' = outcome
            /\ fetch_pc' = "sleep"
            /\ UNCHANGED <<fetch_result, last_request_time>>
    /\ UNCHANGED <<storeVars, crawlVars, pageVars, classifyVars,
                   cursorVars>>

\* The except clause's time.sleep(REQUEST_EXCEPTION_DELAY) (line 139), then
\* the next pass, or the end of the loop.
ExceptionDelay ==
    /\ fetch_pc = "sleep"
    /\ now + REQUEST_EXCEPTION_DELAY <= MaxTime
    /\ now' = now + REQUEST_EXCEPTION_DELAY
    /\ fetch_log' = Append(fetch_log, SleepEvent(REQUEST_EXCEPTION_DELAY))
    /\ fetch_pc' = IF fetch_attempts < NUM_RETRIES THEN "request" ELSE "raise"
    /\ UNCHANGED <<fetch_attempts, last_exception, fetch_result,
                   last_request_time, get_starts, storeVars, crawlVars,
                   pageVars, classifyVars,
                   cursorVars>>

\* raise last_exception (line 140).
RaiseLastException ==
    /\ fetch_pc = "raise"
    /\ fetch_result' = last_exception
    /\ fetch_pc' = "raised"
    /\ UNCHANGED <<fetch_attempts, last_exception, fetch_log, clockVars,
                   storeVars, crawlVars, pageVars, classifyVars,
                   cursorVars>>

\* get_soup has the response: the page is parsed, last_request_time set
\* (lines 149-154) and the soup returned; or the exception of get_request
\* leaves get_soup.  get_soup can be called again.
GetRequestDone(seconds) ==
    /\ fetch_pc \in {"returned", "raised"}
    /\ now + seconds <= MaxTime
    /\ now' = now + seconds
    /\ last_request_time' =
          IF fetch_pc = "returned" THEN now' ELSE last_request_time
    /\ fetch_pc' = "idle"
    /\ fetch_attempts' = 0
    /\ last_exception' = NoException
    /\ fetch_log' = << >>
    /\ fetch_result' = NoResult
    /\ UNCHANGED <<get_starts, storeVars, crawlVars, pageVars, classifyVars,
                   cursorVars>>

FetchNext ==
    \/ Elapse
    \/ GetSoup
    \/ GetRequest
    \/ \E outcome \in AttemptResponses \cup AttemptExceptions,
          seconds \in Durations : RequestsGet(outcome, seconds)
    \/ ExceptionDelay
    \/ RaiseLastException
    \/ \E seconds \in Durations : GetRequestDone(seconds)

FetchSpec == Init /\ [][FetchNext]_vars

(***************************************************************************)
(* One page: JobScraper.process_page, one collection attempt at a time.    *)
(***************************************************************************)
\* The longest list of link elements a result page shows.
MaxLinks == 3

\* process_page's max_attempts.
max_attempts == 3

\* The names bound in the namespace of scraper_module/scraper.py (its
\* imports and its definitions).
ModuleNames ==
    {"traceback", "csv", "re", "text", "OperationalError", "NetworkHandler",
     "JobData", "LinkStatus", "JOB_SCRAPER_DEFAULT_URL",
     "JOB_SCRAPER_REMOTE_URL", "USE_REMOTE", "JOB_SCRAPER_URL", "JobScraper",
     "print_legend"}

\* The link elements find_job_links may return: get_attribute("href") gives
\* the href (<< >>: None or the empty string), or raises
\* StaleElementReferenceException when the element is stale.
LinkElements ==
    {[href |-> <<"job", "1", "?", "a">>, stale |-> FALSE],
     [href |-> <<"job", "1", "?", "b", "?", "c">>, stale |-> FALSE],
     [href |-> <<"job", "2">>, stale |-> FALSE],
     [href |-> << >>, stale |-> FALSE],
     [href |-> << >>, stale |-> TRUE]}

\* What the fetch of a detail page of these links ends with.
LinkResponses ==
    {[status_code |-> 200, soup |-> [text |-> <<"R", "u", "s", "t">>, spans |-> <<Posted5dAgo>>]],
     [status_code |-> 404, soup |-> NoSoup], RequestException}

\* The lists of elements of at most n links.
RECURSIVE LinkLists(_)
LinkLists(n) ==
    IF n = 0 THEN {<< >>}
    ELSE LET shorter == LinkLists(n - 1)
         IN  shorter \cup {Append(l, e) : l \in shorter, e \in LinkElements}

\* The loop over job_links of one attempt (lines 159-165).  The except
\* clause evaluates the name StaleElementReferenceException: a NameError
\* when the module does not bind it, which leaves process_page.
RECURSIVE ReadLinks(_, _, _)
ReadLinks(links, collected, stale) ==
    IF links = << >>
    THEN [hrefs |-> collected, stale_count |-> stale, exception |-> "none"]
    ELSE LET link == Head(links)
         IN  IF link.stale
             THEN IF "StaleElementReferenceException" \in ModuleNames
                  THEN ReadLinks(Tail(links), collected, stale + 1)
                  ELSE [hrefs |-> collected, stale_count |-> stale,
                        exception |-> "NameError"]
             ELSE IF link.href # << >>
                  THEN ReadLinks(Tail(links),
                                 Append(collected, StripQuery(link.href)), stale)
                  ELSE ReadLinks(Tail(links), collected, stale)

\* process_page(search_term) is called (lines 150-151).
ProcessPage(term) ==
    /\ page_pc = "idle"
    /\ page_pc' = "find"
    /\ search_term' = term
    /\ attempt' = 1
    /\ hrefs' = << >>
    /\ job_links' = << >>
    /\ stale_count' = 0
    /\ page_exception' = "none"
    /\ classified' = << >>
    /\ UNCHANGED <<storeVars, fetchVars, clockVars, classifyVars, cursorVars>>
    /\ UNCHANGED <<state_file, network_handler, browser,
                   pc, search_terms, idx, page_number, start_from_term,
                   start_from_page, raised, loop_exit, exit_at, visited,
                   start_cursor, last_link, exit_status, release_log, last_check>>

\* One pass of the for loop over the attempts (lines 153-171): the links
\* are found and read; the list is accepted, or the next attempt follows,
\* or the attempts are used up.
FindJobLinks(links) ==
    /\ page_pc = "find"
    /\ job_links' = links
    /\ LET read == ReadLinks(links, << >>, 0)
       IN  /\ hrefs' = read.hrefs
           /\ stale_count' = read.stale_count
           /\ page_exception' = read.exception
           /\ IF read.exception # "none"
              THEN /\ page_pc' = "raised"
                   /\ UNCHANGED attempt
              ELSE IF read.hrefs # << >>
                      /\ (read.stale_count = 0 \/ read.stale_count < 3)
              THEN /\ page_pc' = "dedupe"
                   /\ UNCHANGED attempt
              ELSE IF attempt < max_attempts
              THEN /\ page_pc' = "find"
                   /\ attempt' = attempt + 1
              ELSE /\ page_pc' = "dedupe"
                   /\ UNCHANGED attempt
    /\ UNCHANGED <<storeVars, fetchVars, clockVars, classifyVars, cursorVars>>
    /\ UNCHANGED <<classified, state_file,
                   network_handler, browser, pc, search_terms, idx,
                   search_term, page_number, start_from_term, start_from_page,
                   raised, loop_exit, exit_at, visited, start_cursor,
                   last_link, exit_status, release_log, last_check>>

\* De-dupe URLs while preserving order (lines 178-179).
DeDupeUrls ==
    /\ page_pc = "dedupe"
    /\ hrefs' = DeDupe(hrefs, {})
    /\ page_pc' = "classify"
    /\ UNCHANGED <<storeVars, fetchVars, clockVars, classifyVars, cursorVars>>
    /\ UNCHANGED <<attempt, job_links, stale_count,
                   page_exception, classified, state_file, network_handler,
                   browser, pc, search_terms, idx, search_term, page_number,
                   start_from_term, start_from_page, raised, loop_exit,
                   exit_at, visited, start_cursor, last_link, exit_status,
                   release_log, last_check>>

\* One pass of the loop over the URLs (lines 181-182).
ClassifyUrl(response) ==
    /\ page_pc = "classify"
    /\ hrefs # << >>
    /\ LET url == Head(hrefs)
           res == process_link_url(store, url, search_term, response)
       IN  /\ classified' = Append(classified, url)
           /\ store' = res.store
           /\ IF res.symbol = "raise"
              THEN /\ page_pc' = "raised"
                   /\ page_exception' = "Exception"
                   /\ UNCHANGED hrefs
              ELSE /\ hrefs' = Tail(hrefs)
                   /\ UNCHANGED <<page_pc, page_exception>>
    /\ UNCHANGED <<fetchVars, clockVars, classifyVars>>
    /\ UNCHANGED <<conn, initial_counts, runs, calls, last_call, cursorVars,
                   attempt, job_links, stale_count, state_file,
                   network_handler, browser, pc, search_terms, idx,
                   search_term, page_number, start_from_term, start_from_page,
                   raised, loop_exit, exit_at, visited, start_cursor,
                   last_link, exit_status, release_log, last_check>>

\* The loop over the URLs is over: process_page returns.
ProcessPageReturns ==
    /\ page_pc = "classify"
    /\ hrefs = << >>
    /\ page_pc' = "returned"
    /\ UNCHANGED <<storeVars, fetchVars, clockVars, classifyVars, cursorVars>>
    /\ UNCHANGED <<attempt, job_links, stale_count,
                   page_exception, classified, hrefs, state_file,
                   network_handler, browser, pc, search_terms, idx,
                   search_term, page_number, start_from_term, start_from_page,
                   raised, loop_exit, exit_at, visited, start_cursor,
                   last_link, exit_status, release_log, last_check>>

\* The caller has the return or the exception; the locals are gone.
ProcessPageDone ==
    /\ page_pc \in {"returned", "raised"}
    /\ page_pc' = "idle"
    /\ search_term' = Unbound
    /\ attempt' = 0
    /\ hrefs' = << >>
    /\ job_links' = << >>
    /\ stale_count' = 0
    /\ page_exception' = "none"
    /\ classified' = << >>
    /\ UNCHANGED <<storeVars, fetchVars, clockVars, classifyVars, cursorVars>>
    /\ UNCHANGED <<state_file, network_handler, browser,
                   pc, search_terms, idx, page_number, start_from_term,
                   start_from_page, raised, loop_exit, exit_at, visited,
                   start_cursor, last_link, exit_status, release_log, last_check>>

ProcessPageNext ==
    \/ ProcessPage("rust")
    \/ \E links \in LinkLists(MaxLinks) : FindJobLinks(links)
    \/ DeDupeUrls
    \/ \E response \in LinkResponses : ClassifyUrl(response)
    \/ ProcessPageReturns
    \/ ProcessPageDone

ProcessPageSpec == Init /\ [][ProcessPageNext]_vars

(***************************************************************************)
(* One link: process_link_url on a store that does not know the pair, for  *)
(* pages put together from a few words.                                    *)
(***************************************************************************)
\* The longest page text, in pieces.
MaxPieces == 3

\* The pieces the text of a page is put together from.
TextPieces ==
    {<<"j", "a", "v", "a">>, <<"J", "a", "v", "A">>,
     <<"s", "c", "r", "i", "p", "t">>, <<" ">>, <<"c", "#">>,
     <<"C", "+", "+">>, <<"x">>}

\* The texts of at most n pieces.
RECURSIVE Texts(_)
Texts(n) ==
    IF n = 0 THEN {<< >>}
    ELSE LET shorter == Texts(n - 1)
         IN  shorter \cup {t \o piece : t \in shorter, piece \in TextPieces}

\* "Posted <n><unit> ago"
PostedAgo(n, unit) ==
    <<"P", "o", "s", "t", "e", "d", " ">> \o str(n) \o <<unit>>
        \o <<" ", "a", "g", "o">>

\* The <span> texts of the pages: none, an age in days (of one and of two
\* digits), in hours, in minutes, in capitals, and an age after a span that
\* gives none.
SpanLists ==
    {<< >>, <<PostedAgo(5, "d")>>, <<PostedAgo(12, "d")>>,
     <<PostedAgo(3, "h")>>, <<PostedAgo(5, "m")>>,
     <<[i \in 1..13 |-> IF PostedAgo(5, "d")[i] = "d" THEN "D"
                        ELSE PostedAgo(5, "d")[i]]>>,
     << <<"3", "0", "+", " ", "a", "p", "p", "l", "i", "e", "d">>,
        PostedAgo(0, "d") >>}

\* The terms the links are validated for: two of main.SEARCH_TERMS that
\* end in a character that is no letter, and one made of letters.
ValidatedTerms == {"java", "C#", "C++"}

\* The pages: every text with one list of spans, and every list of spans
\* with three texts.
ValidatedSoups ==
    [text : Texts(MaxPieces), spans : {<<PostedAgo(5, "d")>>}] \cup
    [text : {<<"j", "a", "v", "a">>, <<"j", "a", "v", "a", "x">>,
             <<"c", "#", "x">>},
     spans : SpanLists]

\* What the fetch of the detail page ends with.
ValidatedResponses ==
    [status_code : {200}, soup : ValidatedSoups]
        \cup {[status_code |-> 404, soup |-> NoSoup], RequestException}

\* process_link_url(url, search_term), the first call of a process whose
\* store is empty.
ValidateLink(term, response) ==
    /\ validated = NoLink
    /\ store = EmptyStore
    /\ LET url == <<"job", "1">>
           res == process_link_url(store, url, term, response)
       IN  /\ store' = res.store
           /\ validated' = [url |-> url, search_term |-> term,
                            response |-> response, symbol |-> res.symbol]
    /\ UNCHANGED <<conn, initial_counts, runs, calls, last_call, crawlVars,
                   fetchVars, pageVars, clockVars, cursorVars>>

ValidateNext ==
    \E term \in ValidatedTerms, response \in ValidatedResponses :
        ValidateLink(term, response)

ValidateSpec == Init /\ [][ValidateNext]_vars

(***************************************************************************)
(* The cursor on its own: save_state one file operation at a time, in a    *)
(* process that can die between them, clear_state and load_state, on a     *)
(* file that something else may have written or removed.                   *)
(***************************************************************************)
CursorPages == {1, 2, 10}

\* Files that hold no record: an empty line, one column, a second column
\* that is no integer, and a quote that is never closed.
ForeignTexts ==
    {<<"\r", "\n">>,
     <<"r", "u", "s", "t">>,
     <<"r", "u", "s", "t", ",", "x", "\r", "\n">>,
     <<"r", "u", "s", "t", ",", "\r", "\n">>,
     <<"r", "u", "s", "t", ",", "2", ".", "0", "\r", "\n">>,
     <<"\"", "r", "u", "s", "t", ",", "2", "\r", "\n">>}

\* save_state, line 300: open(..., "w") leaves the file empty.
SaveStateOpen(term, page) ==
    /\ cursor_pc = "idle"
    /\ cursor_pc' = "open"
    /\ cursor_row' = <<term, page>>
    /\ cursor_before' = state_file
    /\ state_file' = OpenForWriting
    /\ cursor_op' = "open"
    /\ loaded' = NoLoad
    /\ UNCHANGED <<storeVars, driverVars, fetchVars, pageVars, clockVars,
                   classifyVars>>

\* save_state, lines 301-302: the row is written and the with block closes
\* the file.
SaveStateClose ==
    /\ cursor_pc = "open"
    /\ cursor_pc' = "idle"
    /\ state_file' = save_state(cursor_row[1], cursor_row[2])
    /\ cursor_op' = "save"
    /\ loaded' = NoLoad
    /\ UNCHANGED <<cursor_row, cursor_before>>
    /\ UNCHANGED <<storeVars, driverVars, fetchVars, pageVars, clockVars,
                   classifyVars>>

\* The process dies inside save_state, after the open and before the row
\* has reached the file.
Crash ==
    /\ cursor_pc = "open"
    /\ cursor_pc' = "idle"
    /\ cursor_op' = "crash"
    /\ loaded' = NoLoad
    /\ UNCHANGED <<state_file, cursor_row, cursor_before>>
    /\ UNCHANGED <<storeVars, driverVars, fetchVars, pageVars, clockVars,
                   classifyVars>>

\* clear_state on its own.
ClearCursor ==
    /\ cursor_pc = "idle"
    /\ state_file' = clear_state
    /\ cursor_op' = "clear"
    /\ cursor_row' = NoRow
    /\ cursor_before' = NoFile
    /\ loaded' = NoLoad
    /\ UNCHANGED cursor_pc
    /\ UNCHANGED <<storeVars, driverVars, fetchVars, pageVars, clockVars,
                   classifyVars>>

\* The file load_state will open holds something that is no record.
ForeignFile(text) ==
    /\ cursor_pc = "idle"
    /\ state_file' = [exists |-> TRUE, text |-> text]
    /\ cursor_op' = "foreign"
    /\ cursor_row' = NoRow
    /\ cursor_before' = NoFile
    /\ loaded' = NoLoad
    /\ UNCHANGED cursor_pc
    /\ UNCHANGED <<storeVars, driverVars, fetchVars, pageVars, clockVars,
                   classifyVars>>

\* The file load_state will open is not there.
RemoveFile ==
    /\ cursor_pc = "idle"
    /\ state_file' = NoFile
    /\ cursor_op' = "removed"
    /\ cursor_row' = NoRow
    /\ cursor_before' = NoFile
    /\ loaded' = NoLoad
    /\ UNCHANGED cursor_pc
    /\ UNCHANGED <<storeVars, driverVars, fetchVars, pageVars, clockVars,
                   classifyVars>>

\* load_state, by a process that starts while no save_state is under way.
LoadState ==
    /\ cursor_pc = "idle"
    /\ loaded = NoLoad
    /\ loaded' = [after |-> cursor_op, result |-> load_state(state_file)]
    /\ UNCHANGED <<state_file, cursor_pc, cursor_row, cursor_before,
                   cursor_op>>
    /\ UNCHANGED <<storeVars, driverVars, fetchVars, pageVars, clockVars,
                   classifyVars>>

CursorNext ==
    \/ \E term \in Strings, page \in CursorPages : SaveStateOpen(term, page)
    \/ SaveStateClose
    \/ Crash
    \/ ClearCursor
    \/ \E text \in ForeignTexts : ForeignFile(text)
    \/ RemoveFile
    \/ LoadState

CursorSpec == Init /\ [][CursorNext]_vars

(***************************************************************************)
(* Properties of the store (checked under StoreSpec).                      *)
(***************************************************************************)
\* C4: right after add_new_link(t, url, j, v) has recorded its outcome,
\* get_search_terms_and_validities(j) maps t to v; and for a job number
\* without a jobs row the lookup is the empty mapping.
C4_LookupAfterRecord ==
    /\ (last_call # NoCall /\ ~last_call.raised) =>
          LET m == get_search_terms_and_validities(store, last_call.job_number)
          IN  /\ last_call.search_term \in DOMAIN m
              /\ m[last_call.search_term] = (last_call.status = VALID)
    /\ \A j \in JobNumbers \cup {"9"} :
          (\A r \in store.jobs : r.job_number # j) =>
              get_search_terms_and_validities(store, j) = EmptyMapping

\* C4's case: a call recorded INVALID for a pair, after other calls, while
\* some job number has no row.
C4_Witness ==
    /\ last_call # NoCall
    /\ ~last_call.raised
    /\ last_call.status = INVALID
    /\ calls >= 2
    /\ Cardinality(store.job_search_terms) = 1
    /\ \E j \in JobNumbers : \A r \in store.jobs : r.job_number # j

\* C5: add_new_link is idempotent: once a call has recorded its outcome, the
\* same call again raises nothing and leaves every table (so every count and
\* every lookup) as it is.
C5_RecordTwice ==
    (last_call # NoCall /\ ~last_call.raised) =>
        /\ ~JobUrlViolation(store, last_call.job_number, last_call.url)
        /\ add_new_link(store, last_call.search_term, last_call.url,
                        last_call.job_number, last_call.status,
                        last_call.job_html) = store
        /\ Counts(add_new_link(store, last_call.search_term, last_call.url,
                               last_call.job_number, last_call.status,
                               last_call.job_html)) = Counts(store)

\* C5's case: a VALID call with an html on a job whose row already held
\* another html and another URL.
C5_Witness ==
    /\ last_call # NoCall
    /\ ~last_call.raised
    /\ last_call.status = VALID
    /\ last_call.job_html = "h2"
    /\ \E r \in store.jobs : /\ r.job_number = last_call.job_number
                             /\ r.job_html = "h1"
                             /\ r.job_url # last_call.url

\* The job_search_terms rows of the pair (job_number, term).
PairRows(s, job_number, term) ==
    {a \in s.job_search_terms :
        /\ \E r \in s.jobs : r.job_number = job_number /\ r.job_id = a.job_id
        /\ \E st \in s.search_terms :
              st.term_text = term /\ st.term_id = a.term_id}

\* The associations of the pairs other than (job_number, term).
OtherPairs(s, job_number, term) ==
    {x \in Associations(s) : <<x[1], x[2]>> # <<job_number, term>>}

\* C17: when an outcome is recorded for a pair that has an association
\* already, the stored validity of the pair becomes the one recorded (the
\* last write wins), the pair still has one row, and the associations of the
\* other pairs are as they were.
C17_LastWriteWins ==
    [][(calls' = calls + 1 /\ ~last_call'.raised
        /\ StoredValidity(store, last_call'.job_number,
                          last_call'.search_term) # {}) =>
          /\ StoredValidity(store', last_call'.job_number,
                            last_call'.search_term)
                = {last_call'.status = VALID}
          /\ Cardinality(PairRows(store', last_call'.job_number,
                                  last_call'.search_term)) = 1
          /\ OtherPairs(store', last_call'.job_number, last_call'.search_term)
                = OtherPairs(store, last_call'.job_number,
                             last_call'.search_term)]_vars

\* C17's case: three calls made two jobs under one term; job 1 was recorded
\* valid with its html, and the last call recorded it invalid.
C17_Witness ==
    /\ calls = 3
    /\ last_call # NoCall
    /\ ~last_call.raised
    /\ last_call.status = INVALID
    /\ last_call.job_number = "1"
    /\ Cardinality(store.jobs) = 2
    /\ Cardinality(store.search_terms) = 1
    /\ Cardinality(store.job_search_terms) = 2
    /\ \E r \in store.jobs : r.job_number = "1" /\ r.job_html = "h1"
    /\ StoredValidity(store, "1", last_call.search_term) = {FALSE}

\* C18: the store never holds two job rows of one job number, two job rows
\* of one URL, two term rows of one term text, or two association rows of
\* one (job, term) pair.
C18_NoDuplicateRows ==
    /\ \A r1, r2 \in store.jobs :
          (r1.job_number = r2.job_number \/ r1.job_url = r2.job_url
           \/ r1.job_id = r2.job_id) => r1 = r2
    /\ \A t1, t2 \in store.search_terms :
          (t1.term_text = t2.term_text \/ t1.term_id = t2.term_id) => t1 = t2
    /\ \A a1, a2 \in store.job_search_terms :
          (a1.job_id = a2.job_id /\ a1.term_id = a2.term_id) => a1 = a2

\* C18's case: three calls on one job and one term, the last one refused
\* for a URL that another job number holds, left one row in each table.
C18_Witness ==
    /\ calls = 3
    /\ last_call # NoCall
    /\ last_call.raised
    /\ \E r \in store.jobs : /\ r.job_url = last_call.url
                             /\ r.job_number # last_call.job_number
    /\ Cardinality(store.jobs) = 1
    /\ Cardinality(store.search_terms) = 1
    /\ Cardinality(store.job_search_terms) = 1

(***************************************************************************)
(* Properties of the link classifier (checked under Spec).                 *)
(***************************************************************************)
\* A step of process_page's loop that process_link_url returned from.
ProcessLinkStep == pc = "links" /\ hrefs # << >> /\ hrefs' = Tail(hrefs)

\* The job number of the link process_page's loop is at.
HeadJob == extract_job_number_from_url(Head(hrefs))

\* C1: process_link_url on a pair (job, term) the store holds an association
\* for requests no detail page and writes nothing: the store is unchanged and
\* the symbol is 'X' when the stored validity is true, 'x' when it is false.
C1_SkipKnownPair ==
    [][(ProcessLinkStep /\ StoredValidity(store, HeadJob, search_term) # {}) =>
          /\ store' = store
          /\ ~last_link'.fetched
          /\ last_link'.symbol =
                IF StoredValidity(store, HeadJob, search_term) = {TRUE}
                THEN "X" ELSE "x"]_vars

\* C1's case: a link of a pair stored as invalid was skipped.
C1_Witness ==
    /\ last_link # NoLink
    /\ last_link.had_association
    /\ last_link.symbol = "x"
    /\ StoredValidity(store, extract_job_number_from_url(last_link.url),
                      last_link.search_term) = {FALSE}

\* C2: over all the runs on one store, no detail page is requested for a
\* pair that had an association when its link was met.
C2_NeverRefetch ==
    last_link # NoLink => (last_link.had_association => ~last_link.fetched)

\* C2's case: a second run, resumed from the cursor an interrupt of the
\* first one left, meets a pair the first run decided.
C2_Witness ==
    /\ runs = 2
    /\ start_cursor = [search_term |-> "rust", page_number |-> 1]
    /\ last_link # NoLink
    /\ last_link.url = <<"job", "1">>
    /\ last_link.search_term = "rust"
    /\ last_link.had_association
    /\ ~last_link.fetched

\* C3: an association of job j under another term causes no skip: when
\* (j, t2) has no association, process_link_url requests the detail page,
\* prints 'V' or 'I' and adds the association (j, t2) with that validity,
\* every other association left as it is.
C3_OtherTermNoSkip ==
    [][(ProcessLinkStep /\ StoredValidity(store, HeadJob, search_term) = {}) =>
          /\ last_link'.fetched
          /\ last_link'.symbol \in {"V", "I"}
          /\ Associations(store') = Associations(store) \cup
                {<<HeadJob, search_term, last_link'.symbol = "V">>}]_vars

\* C3's case: job 1, decided under "rust", was classified as new under "C#".
C3_Witness ==
    /\ last_link # NoLink
    /\ last_link.search_term = "C#"
    /\ extract_job_number_from_url(last_link.url) = "1"
    /\ last_link.symbol \in {"V", "I"}
    /\ StoredValidity(store, "1", "rust") # {}
    /\ StoredValidity(store, "1", "C#") # {}

\* C14: when the detail page of a new pair comes back with a status other
\* than 200, process_link_url prints 'I' and returns: no exception, the loop
\* goes on with the next link; the store then has the term's row, the job's
\* row (made without html and without posting date if it was not there, left
\* as it was otherwise) and the association of the pair with valid = false.
C14_Non200IsNewInvalid ==
    [][(ProcessLinkStep /\ StoredValidity(store, HeadJob, search_term) = {}
        /\ last_link'.status_code \notin {200, NullInt}) =>
          /\ last_link'.symbol = "I"
          /\ raised' = "none" /\ loop_exit' = "none" /\ pc' = "links"
          /\ \E st \in store'.search_terms : st.term_text = search_term
          /\ IF \E r \in store.jobs : r.job_number = HeadJob
             THEN store'.jobs = store.jobs
             ELSE \E r \in store'.jobs :
                     /\ store'.jobs = store.jobs \cup {r}
                     /\ r.job_number = HeadJob
                     /\ r.job_url = Head(hrefs)
                     /\ r.job_html = NULL
                     /\ r.job_date = NullInt
                     /\ r.position = NULL /\ r.advertiser = NULL
                     /\ r.location = NULL /\ r.work_type = NULL
                     /\ r.salary = NULL
          /\ Associations(store') =
                Associations(store) \cup {<<HeadJob, search_term, FALSE>>}]_vars

\* C14's case: the first link of a page came back with status 404 and was
\* recorded as invalid, a job row without html and date made for it, and
\* the loop is at the next link.
C14_Witness ==
    /\ pc = "links"
    /\ hrefs # << >>
    /\ last_link # NoLink
    /\ last_link.status_code = 404
    /\ last_link.symbol = "I"
    /\ \E r \in store.jobs :
          /\ r.job_number = extract_job_number_from_url(last_link.url)
          /\ r.job_html = NULL
          /\ r.job_date = NullInt
    /\ StoredValidity(store, extract_job_number_from_url(last_link.url),
                      last_link.search_term) = {FALSE}

(***************************************************************************)
(* Properties of the crawl driver and its cursor (checked under Spec).     *)
(***************************************************************************)
\* The place of a term in a list without repeated terms.
IndexOf(terms, term) == CHOOSE i \in 1..Len(terms) : terms[i] = term

\* The cursor as perform_searches' locals name it.
CurrentPosition == [search_term |-> search_term, page_number |-> page_number]

\* C6: a run that loaded the cursor {T, P}, T in its term list, loads no page
\* of a term before T and no page of T below P; the first page it loads is
\* page P of T; each later page is the next page of the same term or page 1
\* of the next term of the list; and when the loop completes, T and every
\* term after it have been visited.
C6_ResumeFromCursor ==
    (start_cursor # NoState
     /\ \E i \in 1..Len(search_terms) : search_terms[i] = start_cursor.search_term)
    =>
    LET T == start_cursor.search_term
        P == start_cursor.page_number
        k == IndexOf(search_terms, T)
    IN  /\ \A i \in 1..Len(visited) :
              LET t == visited[i][1]
                  p == visited[i][2]
              IN  /\ IndexOf(search_terms, t) >= k
                  /\ t = T => p >= P
                  /\ i = 1 => visited[i] = <<T, P>>
                  /\ i > 1 =>
                       \/ visited[i] = <<visited[i - 1][1], visited[i - 1][2] + 1>>
                       \/ /\ IndexOf(search_terms, t) =
                                IndexOf(search_terms, visited[i - 1][1]) + 1
                          /\ p = 1
        /\ loop_exit = "completed" =>
              {visited[i][1] : i \in 1..Len(visited)} =
                 {search_terms[j] : j \in k..Len(search_terms)}

\* C6's case: resumed at page 2 of the second of three terms, the run went
\* on to the end of the list.
C6_Witness ==
    /\ loop_exit = "completed"
    /\ search_terms = <<"pandas", "rust", "C#">>
    /\ start_cursor = [search_term |-> "rust", page_number |-> 2]
    /\ visited = << <<"rust", 2>>, <<"rust", 3>>, <<"C#", 1>>, <<"C#", 2>> >>

C8_CursorSavedOnFailure ==
    (pc = "returned" /\ loop_exit \in {"KeyboardInterrupt", "Exception"}
     /\ exit_at \in {"get", "links"})
    => load_state(state_file) = CurrentPosition

\* C9: after a loop that completed, the cursor is empty when perform_searches
\* is left, however the browser and the connection were released.
C9_CursorClearedOnCompletion ==
    (pc = "returned" /\ loop_exit = "completed")
    => load_state(state_file) = NoState

C11_BothClosesAttempted ==
    pc = "returned" => release_log = <<"browser", "database">>

\* C12: when the browser is closed the connection is still open (so, where
\* both are closed, the browser was closed first), and once either is closed
\* no search, page load or link classification follows in that process.
C12_BrowserThenDatabase ==
    [][/\ (browser # "closed" /\ browser' = "closed") =>
              (conn = "open" /\ conn' = "open")
       /\ (browser = "closed" \/ conn = "closed") =>
              /\ pc' \in {"close_db", "returned", "idle"}
              /\ pc' # "idle" =>
                    (visited' = visited /\ last_link' = last_link
                     /\ hrefs' = hrefs /\ store' = store)]_vars

\* C12's case: a run that loaded pages has closed both, the browser first.
C12_Witness ==
    /\ pc = "returned"
    /\ browser = "closed"
    /\ conn = "closed"
    /\ release_log = <<"browser", "database">>
    /\ visited # << >>
    /\ last_link # NoLink

(***************************************************************************)
(* Properties of the fetch (checked under FetchSpec).                      *)
(***************************************************************************)
\* The places of the requests.get calls in fetch_log.
GetIndexes == {i \in 1..Len(fetch_log) : fetch_log[i].op = "get"}

\* C13: get_request makes at most NUM_RETRIES requests.get calls; every call
\* but the last one made raised a RequestException and each failed call is
\* followed by one sleep of REQUEST_EXCEPTION_DELAY before the next call; it
\* returns the first response it gets, whatever its status, and raises the
\* last exception when NUM_RETRIES calls have failed, not before.
C13_BoundedRetries ==
    /\ Cardinality(GetIndexes) = fetch_attempts
    /\ fetch_attempts <= NUM_RETRIES
    /\ \A i \in 1..Len(fetch_log) :
          IF fetch_log[i].op = "get"
          THEN /\ i < Len(fetch_log) =>
                    /\ fetch_log[i].outcome \in AttemptExceptions
                    /\ fetch_log[i + 1] = SleepEvent(REQUEST_EXCEPTION_DELAY)
          ELSE /\ i > 1 /\ fetch_log[i - 1].op = "get"
               /\ fetch_log[i - 1].outcome \in AttemptExceptions
    /\ fetch_pc = "returned" =>
          /\ fetch_result = fetch_log[Len(fetch_log)].outcome
          /\ fetch_result \in AttemptResponses
    /\ fetch_pc = "raised" =>
          /\ fetch_attempts = NUM_RETRIES
          /\ \A i \in GetIndexes : fetch_log[i].outcome \in AttemptExceptions
          /\ fetch_result = fetch_log[Len(fetch_log) - 1].outcome

\* C13's case: two failed attempts, then a response of status 404, returned
\* at the third attempt.
C13_Witness ==
    /\ fetch_pc = "returned"
    /\ fetch_attempts = 3
    /\ fetch_result = [status_code |-> 404]
    /\ Len(fetch_log) = 5

(***************************************************************************)
(* Properties of the store over lost connections (checked under            *)
(* SaveLinkSpec).                                                          *)
(***************************************************************************)
\* C15: recording an outcome is all-or-nothing: after a call that ended with
\* an exception, the store is as it was before the call, or it holds the job
\* row, the term row and the association of the outcome.
C15_AllOrNothing ==
    [][(calls' = calls + 1 /\ last_call'.raised) =>
          \/ store' = store
          \/ StoredValidity(store', last_call'.job_number,
                            last_call'.search_term) # {}]_vars

(***************************************************************************)
(* Properties of the extracted fields (checked under MaintenanceSpec).     *)
(***************************************************************************)
\* The fields of a jobs row that a recording call or a pass fills.
ExtractedFields == {"job_html", "position", "advertiser", "location",
                    "work_type", "salary"}

\* C16: no recording call and no maintenance pass blanks an extracted field:
\* every job row stays, a field that is not NULL does not become NULL, and a
\* field changes only to a value that is neither NULL nor empty, so a call or
\* a pass that carries NULL or an empty text for it leaves it as it is.
C16_NeverBlanked ==
    [][\A r \in store.jobs :
          \E r2 \in store'.jobs :
             /\ r2.job_id = r.job_id
             /\ \A f \in ExtractedFields :
                   /\ r[f] # NULL => r2[f] # NULL
                   /\ r2[f] # r[f] => ~Falsy(r2[f])]_vars

\* C16's case: a job whose fields were filled, then met by a pass that found
\* another location and no position, and by a call without html: the
\* location is the new one, position, advertiser and html are the old ones.
C16_Witness ==
    /\ last_call # NoCall
    /\ ~last_call.raised
    /\ last_call.job_html = NULL
    /\ \E r \in store.jobs :
          /\ r.job_number = last_call.job_number
          /\ r.job_html = "h1"
          /\ r.position = "Engineer"
          /\ r.advertiser = "Acme"
          /\ r.location = "Hobart"
          /\ r.salary = "$100k"

\* C19: get_link_count(status) is the number of jobs that have an
\* association of that validity: a job valid under one term and invalid
\* under another is in both counts, a job row without association in none.
C19_CountsDistinctJobs ==
    \A st \in LinkStatus :
       get_link_count(store, st) =
          Cardinality({r \in store.jobs :
             \E t \in Terms :
                <<r.job_number, t, st = VALID>> \in Associations(store)})

\* C19's case: job 1 valid under one term and invalid under the other, and
\* a row of job 2 that a lost connection left without association: both
\* counts are 1.
C19_Witness ==
    /\ StoredValidity(store, "1", "rust") = {TRUE}
    /\ StoredValidity(store, "1", "C#") = {FALSE}
    /\ \E r \in store.jobs : r.job_number = "2"
    /\ \A t \in Terms : StoredValidity(store, "2", t) = {}
    /\ get_link_count(store, VALID) = 1
    /\ get_link_count(store, INVALID) = 1

(***************************************************************************)
(* Properties of the order of the crawl (checked under Spec).              *)
(***************************************************************************)
\* The places in the links of a page where a URL occurs for the first time.
FirstOccurrences(term, page) ==
    LET links == PageHrefs(term, page)
    IN  {i \in 1..Len(links) :
            \A j \in 1..(i - 1) : StripQuery(links[j]) # StripQuery(links[i])}

\* The k-th URL of a page in the order of first encounter.
Encountered(term, page, k) ==
    LET first == FirstOccurrences(term, page)
        i == CHOOSE x \in first : Cardinality({y \in first : y <= x}) = k
    IN  StripQuery(PageHrefs(term, page)[i])

\* C20: the crawl is sequential and ordered: a page loaded after another is
\* the next page of the same term, or page 1 of the term that follows in the
\* list (the first page loaded being that of the cursor, or page 1 of the
\* first term), and the links of a page are classified one at a time in the
\* order of their first occurrence on the page.
C20_SequentialOrder ==
    /\ [](\A i \in 1..Len(visited) :
            /\ \E j \in 1..Len(search_terms) : search_terms[j] = visited[i][1]
            /\ i = 1 =>
                 \/ visited[i] = <<search_terms[1], 1>>
                 \/ /\ start_cursor # NoState
                    /\ visited[i] = <<start_cursor.search_term,
                                      start_cursor.page_number>>
            /\ i > 1 =>
                 \/ visited[i] = <<visited[i - 1][1], visited[i - 1][2] + 1>>
                 \/ /\ IndexOf(search_terms, visited[i][1]) =
                          IndexOf(search_terms, visited[i - 1][1]) + 1
                    /\ visited[i][2] = 1)
    /\ [][ProcessLinkStep =>
            LET n == Cardinality(FirstOccurrences(search_term, page_number))
                k == n - Len(hrefs) + 1
            IN  /\ visited # << >>
                /\ visited[Len(visited)] = <<search_term, page_number>>
                /\ k \in 1..n
                /\ last_link'.search_term = search_term
                /\ last_link'.url = Encountered(search_term, page_number, k)
                /\ Len(hrefs') = n - k]_vars

\* C20's case: a run without cursor went through the three terms in order,
\* through the pages of "rust" in order, and has classified the link of the
\* first page of the last term.
C20_Witness ==
    /\ search_terms = <<"pandas", "rust", "C#">>
    /\ visited = << <<"pandas", 1>>, <<"rust", 1>>, <<"rust", 2>>,
                    <<"rust", 3>>, <<"C#", 1>> >>
    /\ pc = "links"
    /\ hrefs = << >>
    /\ last_link # NoLink
    /\ last_link.search_term = "C#"
    /\ last_link.url = <<"job", "1">>

(***************************************************************************)
(* Properties of one page (checked under ProcessPageSpec).                 *)
(***************************************************************************)
\* The part of an href before its first "?".
RECURSIVE PathBeforeQuery(_)
PathBeforeQuery(href) ==
    IF href = << >> \/ Head(href) = "?" THEN << >>
    ELSE <<Head(href)>> \o PathBeforeQuery(Tail(href))

\* The elements of the last attempt whose href was read and is not empty.
ReadableLinks == SelectSeq(job_links, LAMBDA e : ~e.stale /\ e.href # << >>)

\* The place of the first link of the page whose path is url.
FirstLinkOf(url) ==
    CHOOSE k \in 1..Len(ReadableLinks) :
        /\ PathBeforeQuery(ReadableLinks[k].href) = url
        /\ \A m \in 1..(k - 1) : PathBeforeQuery(ReadableLinks[m].href) # url

\* C21: process_page normalizes every collected href by dropping everything
\* from its first "?" on, and classifies each distinct normalized URL exactly
\* once per page, in the order of first occurrence: hrefs that differ only
\* in their query lead to a single classification.
C21_OncePerNormalizedUrl ==
    /\ page_pc = "dedupe" =>
          /\ Len(hrefs) = Len(ReadableLinks)
          /\ \A i \in 1..Len(hrefs) :
                hrefs[i] = PathBeforeQuery(ReadableLinks[i].href)
    /\ page_pc \in {"classify", "returned"} =>
          LET urls == classified \o hrefs
          IN  /\ \A i, j \in 1..Len(urls) : urls[i] = urls[j] => i = j
              /\ {urls[i] : i \in 1..Len(urls)} =
                 {PathBeforeQuery(ReadableLinks[k].href) :
                     k \in 1..Len(ReadableLinks)}
              /\ \A i, j \in 1..Len(urls) :
                    i < j => FirstLinkOf(urls[i]) < FirstLinkOf(urls[j])
    /\ page_pc = "returned" => hrefs = << >>

\* C21's case: a page whose first and third link differ only in their
\* query (the third with a second "?"), a link to another job in between:
\* two classifications, of job 1 and then of job 2.
C21_Witness ==
    /\ page_pc = "returned"
    /\ Len(job_links) = 3
    /\ job_links[1].href = <<"job", "1", "?", "a">>
    /\ job_links[2].href = <<"job", "2">>
    /\ job_links[3].href = <<"job", "1", "?", "b", "?", "c">>
    /\ classified = << <<"job", "1">>, <<"job", "2">> >>

\* C27: process_page makes at most 3 collection attempts per page and stops
\* at the first that yields a URL with fewer than 3 stale elements; a stale
\* element is skipped without raising; if no attempt qualifies, the URLs of
\* the last attempt are classified, so the page is processed without error
\* even when it yields no links.
C27_StaleElementsTolerated ==
    /\ attempt <= max_attempts
    /\ (\E i \in 1..Len(job_links) : job_links[i].stale) => page_pc # "raised"
    /\ page_pc \in {"dedupe", "classify", "returned"} =>
          \/ hrefs \o classified # << >>
          \/ attempt = max_attempts

(***************************************************************************)
(* Properties of the pagination loop (checked under Spec).                 *)
(***************************************************************************)
\* C22: a term's pagination loop ends exactly when the results check of the
\* current page reports no result items; this is no error: no exception is
\* raised, the cursor is not written, and the driver goes on to the next
\* term of the list, or to normal completion after the last one.
C22_NoResultsEndsTerm ==
    /\ [][last_check' # last_check /\ last_check' # NoCheck =>
            /\ pc = "links" /\ hrefs = << >>
            /\ last_check'.search_term = search_term
            /\ last_check'.page_number = page_number
            /\ state_file' = state_file
            /\ raised' = raised
            /\ loop_exit = "none" /\ loop_exit' = "none"
            /\ search_term' = search_term /\ idx' = idx
            /\ IF last_check'.has_results
               THEN pc' = "get" /\ page_number' = page_number + 1
               ELSE pc' = "for"]_vars
    /\ [][pc = "links" /\ pc' = "for" =>
            last_check' # last_check /\ ~last_check'.has_results]_vars
    /\ [][pc = "for" /\ loop_exit' = "none" =>
            \/ /\ idx < Len(search_terms)
               /\ idx' = idx + 1
               /\ search_term' = search_terms[idx + 1]
            \/ /\ idx = Len(search_terms)
               /\ pc' = "clear"]_vars

\* C22's case: the check of the third page of "rust" reported no results
\* and the run, with no cursor written and nothing raised, has gone on to
\* the search of the next term.
C22_Witness ==
    /\ search_terms = <<"pandas", "rust", "C#">>
    /\ last_check = [search_term |-> "rust", page_number |-> 3,
                     has_results |-> FALSE]
    /\ pc = "search"
    /\ search_term = "C#"
    /\ state_file = NoFile
    /\ loop_exit = "none"
    /\ raised = "none"

(***************************************************************************)
(* Properties of the spacing of the fetches (checked under FetchSpec).     *)
(***************************************************************************)
\* C23: the minimum-spacing wait applies to every fetch: every HTTP GET
\* (of whatever get_soup call, first attempt or retry) begins no earlier
\* than SUCCESSIVE_URL_READ_DELAY after the previous one began, and
\* get_soup has blocked its caller until that interval has elapsed.
C23_MinimumSpacing ==
    /\ get_starts[1] # NullInt =>
          get_starts[2] - get_starts[1] >= SUCCESSIVE_URL_READ_DELAY
    /\ fetch_pc \in {"soup", "request"} /\ get_starts[2] # NullInt =>
          now - get_starts[2] >= SUCCESSIVE_URL_READ_DELAY
    /\ last_request_time <= now

\* C23's case: a get_soup call made as soon as the one before it returned
\* was held back, its request began 3 seconds after the previous one.
C23_Witness ==
    /\ get_starts[1] # NullInt
    /\ get_starts[2] - get_starts[1] = SUCCESSIVE_URL_READ_DELAY
    /\ fetch_attempts = 1
    /\ fetch_pc = "returned"

(***************************************************************************)
(* Properties of the validation of one link (checked under ValidateSpec).  *)
(***************************************************************************)
\* The term occurs in the text as a word of its own: the character before
\* the occurrence, and the one after it, is no word character.
OccursAsWord(term, text) ==
    \E i \in 0..(Len(text) - Len(term)) :
        /\ SubSeq(text, i + 1, i + Len(term)) = term
        /\ i = 0 \/ text[i] \notin WordChars
        /\ i + Len(term) = Len(text) \/ text[i + Len(term) + 1] \notin WordChars

\* C24: validity is a case-insensitive whole-word match of the search term
\* in the text of the page: a term that occurs only as a part of a longer
\* word does not match, the term as a separate word, in any letter case,
\* matches.
C24_WholeWordMatch ==
    validated # NoLink /\ validated.response # RequestException
        /\ validated.response.status_code = 200 =>
            (validated.symbol = "V") <=>
                OccursAsWord(Lower(TermChars(validated.search_term)),
                             Lower(validated.response.soup.text))

\* The posting age a list of spans shows: the first span of the form
\* "Posted <n>d ago" or "Posted <n>h ago" gives days, or hours (0 days).
ShownAge(spans) ==
    LET ages == {i \in 1..Len(spans) :
                    \E n \in 0..31, unit \in {"d", "h"} :
                        spans[i] = PostedAgo(n, unit)}
    IN  IF ages = {} THEN NullInt
        ELSE LET i == CHOOSE x \in ages : \A y \in ages : x <= y
                 n == CHOOSE m \in 0..31 :
                          \E unit \in {"d", "h"} : spans[i] = PostedAgo(m, unit)
             IN  IF spans[i] = PostedAgo(n, "d") THEN n ELSE 0

\* The job_date of the one job row the store holds.
StoredJobDate == (CHOOSE r \in store.jobs : TRUE).job_date

\* C25: for a valid link whose page shows a posting age of N days the
\* stored posting date is the fetch date minus N days; an age in hours
\* gives the fetch date itself; for an invalid link, or when no age text is
\* found, the posting date is null.
C25_PostingDate ==
    validated # NoLink /\ validated.symbol \in {"V", "I"} =>
        /\ Cardinality(store.jobs) = 1
        /\ IF validated.symbol = "V"
              /\ ShownAge(validated.response.soup.spans) # NullInt
           THEN StoredJobDate = Today - ShownAge(validated.response.soup.spans)
           ELSE StoredJobDate = NullInt

\* C25's case: a valid link whose page says "Posted 5d ago", read on day 10,
\* is stored with posting date 5.
C25_Witness ==
    /\ validated # NoLink
    /\ validated.symbol = "V"
    /\ validated.response.soup.spans = <<Posted5dAgo>>
    /\ StoredJobDate = 5
    /\ Today = 10

(***************************************************************************)
(* Properties of a failed fetch (checked under Spec).                      *)
(***************************************************************************)
\* A step of process_page's loop in which process_link_url asked for the
\* detail page and the fetch ended with the exception of get_request.
FetchFailedStep ==
    /\ pc = "links" /\ hrefs # << >>
    /\ last_link' # last_link
    /\ last_link'.fetched
    /\ last_link'.status_code = NullInt

\* C26: when every attempt of the fetch of a detail page fails during the
\* classification of a new pair, the run ends there: nothing is written
\* for the pair, and no further link, page or term is processed in the run.
C26_FetchFailureIsFatal ==
    /\ [][FetchFailedStep =>
            /\ store' = store
            /\ StoredValidity(store', HeadJob, search_term) = {}
            /\ ~last_link'.had_association
            /\ last_link'.symbol = "raise"
            /\ loop_exit' = "Exception"
            /\ pc' = "close_browser"]_vars
    /\ [][loop_exit = "Exception" /\ pc' # "idle" =>
            /\ store' = store
            /\ last_link' = last_link
            /\ visited' = visited
            /\ idx' = idx
            /\ search_term' = search_term
            /\ pc' \in {"close_browser", "close_db", "returned"}]_vars

\* C26's case: the fetch for the first link of "rust" failed for good; the
\* run is over with a store as empty as before.
C26_Witness ==
    /\ pc = "returned"
    /\ loop_exit = "Exception"
    /\ exit_at = "links"
    /\ last_link # NoLink
    /\ last_link.fetched
    /\ last_link.status_code = NullInt
    /\ last_link.search_term = "rust"
    /\ store = EmptyStore


(***************************************************************************)
(* Properties of the cursor on its own (checked under CursorSpec).         *)
(***************************************************************************)
\* The record save_state was called with.
SavedRecord == [search_term |-> cursor_row[1], page_number |-> cursor_row[2]]

\* C28: load_state after save_state(t, p) returns the record of t and p,
\* for every term t and page number p; load_state after clear_state returns
\* None; and load_state returns None when the file is missing or holds
\* something that is no record.
C28_CursorRoundTrip ==
    loaded # NoLoad
    => CASE loaded.after = "save" -> loaded.result = SavedRecord
         [] loaded.after \in {"clear", "foreign", "removed"} ->
                loaded.result = NoState
         [] OTHER -> TRUE

\* C29: at every instant of save_state, and after a crash inside it, the
\* cursor read back is the complete previous record or the complete new
\* one.
C29_AtomicOverwrite ==
    (cursor_pc = "open" \/ cursor_op = "crash")
    => load_state(state_file) \in {load_state(cursor_before), SavedRecord}

(***************************************************************************)
(* Rows are never removed (checked under StoreSpec).                       *)
(***************************************************************************)
JobIdentifiers(s) == {r.job_number : r \in s.jobs}

TermTexts(s) == {st.term_text : st \in s.search_terms}

AssociatedPairs(s) == {<<a[1], a[2]>> : a \in Associations(s)}

\* C30: no store operation removes a row: in every step the job numbers,
\* the term texts and the associated (job, term) pairs of the store before
\* the step are all in the store after it.
C30_StoreOnlyGrows ==
    [][/\ JobIdentifiers(store) \subseteq JobIdentifiers(store')
       /\ TermTexts(store) \subseteq TermTexts(store')
       /\ AssociatedPairs(store) \subseteq AssociatedPairs(store')
       /\ {r.job_id : r \in store.jobs} \subseteq {r.job_id : r \in store'.jobs}
       /\ {st.term_id : st \in store.search_terms}
             \subseteq {st.term_id : st \in store'.search_terms}]_vars

\* One process has made three calls that left one job with two terms, so a
\* call met a pair the store already held, and the last call wrote.
C30_Witness ==
    /\ runs = 1
    /\ calls = 3
    /\ last_call.op = "add_new_link"
    /\ ~last_call.raised
    /\ Cardinality(store.jobs) = 1
    /\ Cardinality(AssociatedPairs(store)) = 2
    /\ Cardinality(TermTexts(store)) = 2

(***************************************************************************)
(* Soundness of the cursor the driver writes (checked under Spec).         *)
(***************************************************************************)
\* The page this run started, or would start, the term at.
StartPageOf(term) ==
    IF start_cursor # NoState /\ start_cursor.search_term = term
    THEN start_cursor.page_number
    ELSE 1

\* perform_searches has just written the cursor: in the KeyboardInterrupt
\* handler, or in the handler of a failed browser close.
CursorJustWritten ==
    \/ pc = "close_browser" /\ loop_exit = "KeyboardInterrupt"
          /\ raised = "none"
    \/ pc = "close_db" /\ browser # "closed"

\* C31: whenever perform_searches has written a cursor {t, p}, t is the term
\* the loop was at and every page of t from the page this run started t at
\* up to p - 1 has been loaded and processed by this run, so that a run
\* resumed from the cursor skips no page that was not processed.
C31_CursorSoundness ==
    CursorJustWritten
    => /\ load_state(state_file) = CurrentPosition
       /\ \A q \in StartPageOf(search_term)..(page_number - 1) :
             \E i \in 1..Len(visited) : visited[i] = <<search_term, q>>

(***************************************************************************)
(* A completed run has visited its terms (checked under Spec).             *)
(***************************************************************************)
\* Whether the term of the cursor this run loaded is one of its terms.
CursorTermListed ==
    \E i \in 1..Len(search_terms) : search_terms[i] = start_cursor.search_term

\* C32: whatever cursor the run loaded, a run whose loop completed (and so
\* cleared the cursor) has loaded a page, and has loaded a page of every
\* term from the resumption point on: from the cursor's term when the list
\* has it, from the first term when no cursor was loaded.
C32_CompletedRunVisited ==
    loop_exit = "completed"
    => /\ visited # << >>
       /\ (start_cursor = NoState \/ CursorTermListed) =>
             \A j \in (IF start_cursor = NoState THEN 1
                       ELSE IndexOf(search_terms,
                                    start_cursor.search_term))
                          ..Len(search_terms) :
                \E i \in 1..Len(visited) : visited[i][1] = search_terms[j]

(***************************************************************************)
(* Queries after the release of the connection (checked under Spec).       *)
(***************************************************************************)
\* main reaches its count queries (main.py lines 28-39): perform_searches
\* has returned and no exception left it.
MainQueriesCounts == pc = "returned" /\ raised = "none" /\ pc' = "idle"

\* C33: main's final reporting (get_link_count and get_links_difference
\* after perform_searches returns) is only done while the connection is
\* open: no query is issued on a closed connection.
C33_ReportWhileOpen == [][MainQueriesCounts => conn = "open"]_vars

(***************************************************************************)
(* The counts over a crawl run (checked under Spec).                       *)
(***************************************************************************)
\* C34: in every step of a crawl run the validity stored for a pair that
\* had an association stays as it was, so get_link_count of VALID and of
\* INVALID do not decrease, and get_links_difference is at least 0 for both
\* statuses after the step.
C34_CountsNeverDecrease ==
    [][pc # "idle" =>
          /\ \A j \in JobIdentifiers(store), t \in TermTexts(store) :
                StoredValidity(store, j, t) # {} =>
                   StoredValidity(store', j, t) = StoredValidity(store, j, t)
          /\ \A st \in LinkStatus :
                /\ get_link_count(store', st) >= get_link_count(store, st)
                /\ get_links_difference(store', initial_counts', st) >= 0]_vars

\* C34's case: a second run, started on a store that already counted a
\* link, has just recorded a link of a pair that had no association, and
\* the difference counts it.
C34_Witness ==
    /\ runs = 2
    /\ pc = "links"
    /\ \E st \in LinkStatus : initial_counts[st] >= 1
    /\ last_link # NoLink
    /\ ~last_link.had_association
    /\ last_link.symbol \in {"V", "I"}
    /\ \E st \in LinkStatus :
          get_links_difference(store, initial_counts, st) >= 1
    /\ Cardinality(store.job_search_terms) >= 2

(***************************************************************************)
(* Completeness of a processed page (checked under Spec).                  *)
(***************************************************************************)
\* Every URL collected from the page of the term has an association of its
\* job with the term.
PageDecided(term, page) ==
    LET urls == CollectUrls(PageHrefs(term, page))
    IN  \A i \in 1..Len(urls) :
           StoredValidity(store, extract_job_number_from_url(urls[i]), term)
              # {}

\* C35: when process_page(term) has returned normally (its loop over the
\* URLs is over and the results check is next), every URL collected from
\* the page has a stored association with the term; and after a loop that
\* completed, so has every URL collected on every page the run loaded.
C35_PageComplete ==
    /\ (pc = "links" /\ hrefs = << >>) => PageDecided(search_term, page_number)
    /\ loop_exit = "completed" =>
          \A i \in 1..Len(visited) : PageDecided(visited[i][1], visited[i][2])

\* C35's case: a run over one term completed, having loaded its two pages
\* of links and the empty page after them, and a rejected pair is among the
\* associations it recorded.
C35_Witness ==
    /\ loop_exit = "completed"
    /\ search_terms = <<"rust">>
    /\ visited = << <<"rust", 1>>, <<"rust", 2>>, <<"rust", 3>> >>
    /\ Cardinality(store.job_search_terms) = 2
    /\ \E a \in store.job_search_terms : ~a.valid

(***************************************************************************)
(* Terms that end in a non-word character (checked under ValidateSpec).    *)
(***************************************************************************)
\* The term stands in the text as a token of its own: the text begins, or a
\* space stands, before it, and the text ends, or a space stands, after it.
OccursAsToken(term, text) ==
    \E i \in 0..(Len(text) - Len(term)) :
        /\ SubSeq(text, i + 1, i + Len(term)) = term
        /\ i = 0 \/ text[i] = " "
        /\ i + Len(term) = Len(text) \/ text[i + Len(term) + 1] = " "

\* C36: for every search term, "C++" and "C#" included, a page whose text
\* has the term as a token between white space, in any letter case, is
\* classified valid.
C36_TokenIsValid ==
    (/\ validated # NoLink
     /\ validated.response # RequestException
     /\ validated.response.status_code = 200
     /\ OccursAsToken(Lower(TermChars(validated.search_term)),
                      Lower(validated.response.soup.text)))
    => validated.symbol = "V"

(***************************************************************************)
(* Termination of a run (checked under LiveSpec).                          *)
(***************************************************************************)
\* C37: on a site where every term has finitely many result pages and every
\* page finitely many links, a run of perform_searches that has started
\* reaches its finally clause and leaves perform_searches, whatever the
\* fetches end with.
C37_Terminates == (pc # "idle") ~> (pc = "returned")

\* C37's case: perform_searches was left after a run that went through all
\* three terms, a later page of a term among the pages loaded.
C37_Witness ==
    /\ pc = "returned"
    /\ loop_exit = "completed"
    /\ search_terms = <<"pandas", "rust", "C#">>
    /\ Len(visited) >= 5
    /\ release_log = <<"browser", "database">>

=============================================================================
